---- MODULE Spec2Model ----
(***************************************************************************)
(* A model of the offline A/B evaluation harness of AkuAI-Core: the scorer *)
(* (cmd/abscore) together with the UIB event service it calls, and the     *)
(* rating pipeline (cmd/abjudge) with the statistics both programs share.  *)
(*                                                                         *)
(* Strings are TLA+ strings and are handled character by character, as the *)
(* Go code does (strings.Contains, strings.ToLower, strings.Fields, ...).  *)
(* float64 values that the scorer produces are quotients of small counts;  *)
(* they are kept as exact fractions <<numerator, denominator>> in lowest   *)
(* terms.  Instants are whole hours since 2025-10-01T00:00Z, calendar days *)
(* are whole days since 2025-10-01.                                        *)
(***************************************************************************)
EXTENDS Integers, Sequences, FiniteSets, TLC

VARIABLES
  now,      \* the wall clock
  tz,       \* the offset of the local time zone, in hours east of UTC
  rec,      \* the result (query, mode, response, relevant IDs) being scored
  row,      \* its ScoreRow from the latest run, or NoRow
  prevRow,  \* its ScoreRow from the run before, or NoRow
  fmtReasons, \* the reasons the format check gave in the latest run
  stamp,    \* the instant of the latest run
  pc,       \* the position of the run in main
  env,      \* the environment variables of a rating run
  raterNames, \* the two rater names of a rating run
  itemList, \* the (query, mode) pairs a rating run generates ratings for
  rows,     \* the ScoreRows of a scorer run
  csv,      \* the records of the ratings file under import
  importErr, \* the error parseRatingsCSV returned, "" for none
  ratings,  \* the RatingRows of a rating run
  vectors,  \* the per-item rating vectors handed to alpha and kappa
  paired,   \* the paired arrays handed to the Wilcoxon and McNemar tests
  irr,      \* the values of alpha and kappa
  tests,    \* the results of the paired tests
  startedAt, \* time.Now().UnixNano() when a rating run starts, low bits
  runs,     \* the rating rows each generator seed has produced so far
  errOut,   \* the error a rating run printed before os.Exit(1), or None
  files,    \* the files a rating run has written
  clock,    \* the wall clock of the server, in milliseconds
  dupTTL,   \* the duplicate window, in milliseconds
  lastMsg,  \* the last message recorded per user
  calls,    \* the DuplicateGuard calls between time.Now() and dupMu.Lock()
  verdict,  \* what the latest DuplicateGuard call returned, or None
  cacheItems, \* the items of the cache
  stored,   \* the latest Set call per key: value, instant and ttl
  reply,    \* what the latest Get or GetChatResponse call returned, or None
  window,   \* the refill window of the rate limiter, in milliseconds
  capacity, \* the capacity of a bucket
  refillPerWd, \* the tokens added per window
  buckets,  \* the bucket per key (user and address)
  requests, \* the requests between time.Now() and rlMu.Lock()
  served,   \* the latest response of the RateLimit middleware, or None
  admitted  \* the requests admitted per key since its bucket was last refilled

scoreVars == <<now, tz, rec, row, prevRow, fmtReasons, stamp>>

statVars == <<pc, env, raterNames, itemList, rows, csv, importErr, ratings, vectors, paired, irr, tests,
              startedAt, runs, errOut, files>>

runVars == <<startedAt, runs, errOut, files>>

guardVars == <<dupTTL, lastMsg, calls, verdict>>

cacheVars == <<cacheItems, stored, reply>>

rateVars == <<window, capacity, refillPerWd, buckets, requests, served, admitted>>

webVars == <<clock, dupTTL, lastMsg, calls, verdict, cacheItems, stored, reply,
             window, capacity, refillPerWd, buckets, requests, served, admitted>>

vars == <<now, tz, rec, row, prevRow, fmtReasons, stamp,
          pc, env, raterNames, itemList, rows, csv, importErr, ratings, vectors, paired, irr, tests,
          startedAt, runs, errOut, files,
          clock, dupTTL, lastMsg, calls, verdict, cacheItems, stored, reply,
          window, capacity, refillPerWd, buckets, requests, served, admitted>>

(***************************************************************************)
(* package strings                                                         *)
(***************************************************************************)
Char(s, i) == SubSeq(s, i, i)

LowerOf ==
  ("A" :> "a") @@ ("B" :> "b") @@ ("C" :> "c") @@ ("D" :> "d") @@ ("E" :> "e") @@
  ("F" :> "f") @@ ("G" :> "g") @@ ("H" :> "h") @@ ("I" :> "i") @@ ("J" :> "j") @@
  ("K" :> "k") @@ ("L" :> "l") @@ ("M" :> "m") @@ ("N" :> "n") @@ ("O" :> "o") @@
  ("P" :> "p") @@ ("Q" :> "q") @@ ("R" :> "r") @@ ("S" :> "s") @@ ("T" :> "t") @@
  ("U" :> "u") @@ ("V" :> "v") @@ ("W" :> "w") @@ ("X" :> "x") @@ ("Y" :> "y") @@
  ("Z" :> "z")

LowerChar(c) == IF c \in DOMAIN LowerOf THEN LowerOf[c] ELSE c

\* strings.ToLower, character by character (by halves, to keep the evaluation shallow)
RECURSIVE ToLower(_)
ToLower(s) ==
  IF Len(s) = 0 THEN ""
  ELSE IF Len(s) = 1 THEN LowerChar(s)
  ELSE ToLower(SubSeq(s, 1, Len(s) \div 2)) \o ToLower(SubSeq(s, Len(s) \div 2 + 1, Len(s)))

Contains(s, sub) ==
  \E i \in 1..(Len(s) - Len(sub) + 1) : SubSeq(s, i, i + Len(sub) - 1) = sub

HasPrefix(s, p) == Len(s) >= Len(p) /\ SubSeq(s, 1, Len(p)) = p

HasSuffix(s, p) == Len(s) >= Len(p) /\ SubSeq(s, Len(s) - Len(p) + 1, Len(s)) = p

EqualFold(a, b) == ToLower(a) = ToLower(b)

\* unicode.IsSpace on the characters the inputs use
WhiteSpace == {" ", "\n", "\t", "\r"}

SetMin(S) == CHOOSE x \in S : \A y \in S : x <= y
SetMax(S) == CHOOSE x \in S : \A y \in S : x >= y

\* strings.Trim: drop the leading and trailing characters that are in cutset
Trim(s, cutset) ==
  LET cut(keep) == IF keep = {} THEN "" ELSE SubSeq(s, SetMin(keep), SetMax(keep))
  IN  cut({i \in 1..Len(s) : Char(s, i) \notin cutset})

TrimSpace(s) == Trim(s, WhiteSpace)

\* strings.FieldsFunc: the maximal runs of characters that are not separators
FieldsFunc(s, seps) ==
  LET isSep(i) == i < 1 \/ i > Len(s) \/ Char(s, i) \in seps
      field(i, ends) == SubSeq(s, i, SetMin({j \in ends : j >= i}))
      fields(starts, ends) ==
        [k \in 1..Cardinality(starts) |->
           field(CHOOSE i \in starts : Cardinality({j \in starts : j < i}) = k - 1, ends)]
  IN  fields({i \in 1..Len(s) : ~isSep(i) /\ isSep(i - 1)},
             {i \in 1..Len(s) : ~isSep(i) /\ isSep(i + 1)})

Fields(s) == FieldsFunc(s, WhiteSpace)

RECURSIVE Join(_, _)
Join(elems, sep) ==
  IF elems = <<>> THEN ""
  ELSE IF Len(elems) = 1 THEN elems[1]
  ELSE elems[1] \o sep \o Join(Tail(elems), sep)

\* strings.Split(s, sep) for a one-character separator
RECURSIVE SplitFrom(_, _, _)
SplitFrom(s, sep, cur) ==
  IF s = "" THEN <<cur>>
  ELSE IF Char(s, 1) = sep
       THEN <<cur>> \o SplitFrom(SubSeq(s, 2, Len(s)), sep, "")
       ELSE SplitFrom(SubSeq(s, 2, Len(s)), sep, cur \o Char(s, 1))

Split(s, sep) == SplitFrom(s, sep, "")

Range(f) == {f[i] : i \in DOMAIN f}

\* the byte order of the characters the inputs use
ByteOrder == " 0123456789ABCDEFGHIJKLMNOPQRSTUVWXYZ_abcdefghijklmnopqrstuvwxyz"

ByteRank(c) == SetMin({i \in 1..Len(ByteOrder) : Char(ByteOrder, i) = c} \cup {Len(ByteOrder) + 1})

\* a < b for Go strings: the first differing byte decides, a proper prefix is smaller
StringLess(a, b) ==
  LET differ == {i \in 1..Len(a) : i > Len(b) \/ Char(a, i) # Char(b, i)}
  IN  IF differ = {} THEN Len(a) < Len(b)
      ELSE SetMin(differ) <= Len(b)
           /\ ByteRank(Char(a, SetMin(differ))) < ByteRank(Char(b, SetMin(differ)))

\* sort.Strings of a set of distinct strings
SortStrings(S) ==
  [k \in 1..Cardinality(S) |->
     CHOOSE x \in S : Cardinality({y \in S : StringLess(y, x)}) = k - 1]

\* the orders in which a map with the given keys may be traversed
RECURSIVE Orders(_)
Orders(S) ==
  IF S = {} THEN {<< >>}
  ELSE UNION {{<<x>> \o rest : rest \in Orders(S \ {x})} : x \in S}

(***************************************************************************)
(* package time, restricted to the year 2025                               *)
(***************************************************************************)
DigitVal ==
  ("0" :> 0) @@ ("1" :> 1) @@ ("2" :> 2) @@ ("3" :> 3) @@ ("4" :> 4) @@
  ("5" :> 5) @@ ("6" :> 6) @@ ("7" :> 7) @@ ("8" :> 8) @@ ("9" :> 9)

IsDigits(s) == \A i \in 1..Len(s) : Char(s, i) \in DOMAIN DigitVal

RECURSIVE Atoi(_)
Atoi(s) == IF s = "" THEN 0 ELSE 10 * Atoi(SubSeq(s, 1, Len(s) - 1)) + DigitVal[Char(s, Len(s))]

DaysInMonth == <<31, 28, 31, 30, 31, 30, 31, 31, 30, 31, 30, 31>>

RECURSIVE DaysBeforeMonth(_)
DaysBeforeMonth(m) == IF m <= 1 THEN 0 ELSE DaysBeforeMonth(m - 1) + DaysInMonth[m - 1]

\* time.Parse("2006-01-02", s): the day number of s, or an error
ParseDate(s) ==
  IF Len(s) = 10 /\ Char(s, 5) = "-" /\ Char(s, 8) = "-"
     /\ IsDigits(SubSeq(s, 1, 4)) /\ IsDigits(SubSeq(s, 6, 7)) /\ IsDigits(SubSeq(s, 9, 10))
     /\ Atoi(SubSeq(s, 1, 4)) = 2025
     /\ Atoi(SubSeq(s, 6, 7)) \in 1..12
     /\ Atoi(SubSeq(s, 9, 10)) \in 1..DaysInMonth[Atoi(SubSeq(s, 6, 7))]
  THEN [ok |-> TRUE,
        t |-> 24 * (DaysBeforeMonth(Atoi(SubSeq(s, 6, 7))) + Atoi(SubSeq(s, 9, 10))
                      - (DaysBeforeMonth(10) + 1))]
  ELSE [ok |-> FALSE, t |-> 0]

\* the local calendar day of an instant, and local midnight of a calendar day
LocalDay(t, zone) == (t + zone) \div 24
LocalMidnight(day, zone) == 24 * day - zone

\* time.Weekday of a calendar day, Sunday = 0; 2025-10-01 is a Wednesday
Weekday(day) == (day + 3) % 7

(***************************************************************************)
(* data/uib_events.json as loaded into UIBEventsData                       *)
(***************************************************************************)
October2025 == <<
  [ID |-> "E1", Type |-> "certification", Title |-> "Sertifikasi Digital Marketing",
   Date |-> "2025-10-05", Department |-> "Manajemen",
   Description |-> "Pelatihan pemasaran digital", Speaker |-> "",
   Contact |-> "cert@uib.ac.id"],
  [ID |-> "E2", Type |-> "webinar", Title |-> "Webinar AI",
   Date |-> "2025-10-06", Department |-> "Informatika",
   Description |-> "Pengantar kecerdasan buatan", Speaker |-> "Dr. Budi",
   Contact |-> " Webinar@uib.ac.id"],
  [ID |-> "E3", Type |-> "webinar", Title |-> "Webinar Data",
   Date |-> "2025-10-12", Department |-> "Informatika",
   Description |-> "Analitik data", Speaker |-> "",
   Contact |-> ""],
  [ID |-> "E5", Type |-> "webinar", Title |-> "Webinar Karir",
   Date |-> "2025-10-15", Department |-> "Pusat Karir",
   Description |-> "Persiapan kerja", Speaker |-> "",
   Contact |-> "karir@uib.ac.id"] >>

November2025 == <<
  [ID |-> "E4", Type |-> "certification", Title |-> "Sertifikasi Cloud",
   Date |-> "2025-11-10", Department |-> "Informatika",
   Description |-> "Dasar komputasi awan", Speaker |-> "",
   Contact |-> "cloud@uib.ac.id"] >>

December2025 == << >>

(***************************************************************************)
(* UIBEventService                                                         *)
(***************************************************************************)
GetAllEvents == October2025 \o November2025 \o December2025

GetEventsByMonth(month) ==
  LET m == ToLower(month)
  IN  IF m \in {"october", "oktober"} THEN October2025
      ELSE IF m = "november" THEN November2025
      ELSE IF m \in {"december", "desember"} THEN December2025
      ELSE << >>

GetUpcomingEvents(t) ==
  SelectSeq(GetAllEvents,
            LAMBDA ev : LET d == ParseDate(ev.Date)
                        IN  d.ok /\ (d.t > t \/ d.t = 24 * (t \div 24)))

isFilteredOut(event, monthPrefixes, requiredType) ==
  LET datePrefix == IF Len(event.Date) >= 7 THEN ToLower(SubSeq(event.Date, 1, 7)) ELSE ""
  IN  \/ (monthPrefixes # {} /\ (datePrefix = "" \/ datePrefix \notin monthPrefixes))
      \/ (requiredType # "" /\ requiredType # "both" /\ ~EqualFold(event.Type, requiredType))

isEventRelevantToQuery(event, queryLower) ==
  LET searchableFields == <<ToLower(event.Title), ToLower(event.Description),
                            ToLower(event.Department), ToLower(event.Type),
                            ToLower(event.Speaker), event.Date>>
      matches(field) ==
        field # "" /\ (Contains(field, queryLower) \/ Contains(queryLower, field))
  IN  \/ \E i \in 1..6 : matches(TrimSpace(searchableFields[i]))
      \/ (Contains(queryLower, "oktober") /\ Contains(event.Date, "2025-10"))
      \/ (Contains(queryLower, "november") /\ Contains(event.Date, "2025-11"))
      \/ (Contains(queryLower, "desember") /\ Contains(event.Date, "2025-12"))

containsNumericMonth(s) ==
  LET clean(tok) == Trim(TrimSpace(tok), {"?", "!", ",", ":", ".", ";", "(", ")", "[", "]", "{", "}"})
      months == {"10", "11", "12"}
      found(tokens) ==
        \E i \in DOMAIN tokens :
          \/ (clean(tokens[i]) \in {"bulan", "bln"} /\ i + 1 <= Len(tokens)
              /\ clean(tokens[i + 1]) \in months)
          \/ clean(tokens[i]) \in months
  IN  found(FieldsFunc(s, WhiteSpace))

detectMonthPrefixes(queryLower) ==
  LET keywords(p) == CASE p = "2025-10" -> {"okt", "oktober", "october"}
                       [] p = "2025-11" -> {"nov", "november"}
                       [] p = "2025-12" -> {"des", "desember", "december"}
      prefixes == {"2025-10", "2025-11", "2025-12"}
      named == {p \in prefixes : \E keyword \in keywords(p) : Contains(queryLower, keyword)}
      numeric == IF containsNumericMonth(queryLower)
                 THEN {p \in prefixes : Contains(queryLower, SubSeq(p, 6, 7))}
                 ELSE {}
  IN  named \cup numeric

detectEventType(queryLower) ==
  LET hasWeb == \E k \in {"webinar", "seminar", "talkshow", "kuliah umum"} : Contains(queryLower, k)
      hasCert == \E k \in {"sertifikasi", "certification", "certificate", "pelatihan",
                           "workshop", "bootcamp"} : Contains(queryLower, k)
  IN  IF hasWeb /\ hasCert THEN "both"
      ELSE IF hasWeb THEN "webinar"
      ELSE IF hasCert THEN "certification"
      ELSE ""

\* the inclusive range Monday..Sunday of the week after the local day of `base`
detectRelativeRange(queryLower, base, zone) ==
  LET daysUntilNextMon(wd) == IF (8 - wd) % 7 = 0 THEN 7 ELSE (8 - wd) % 7
      range(start) == [ok |-> TRUE, start |-> start, end |-> start + 24 * 6]
      from(day) == range(LocalMidnight(day + daysUntilNextMon(Weekday(day)), zone))
  IN  IF Contains(queryLower, "minggu depan") \/ Contains(queryLower, "pekan depan")
      THEN from(LocalDay(base, zone))
      ELSE [ok |-> FALSE, start |-> 0, end |-> 0]

AnalyzeQueryForUIB(query) ==
  LET has(queryLower, keywords) == \E k \in keywords : Contains(queryLower, k)
      jurusanKeywords == {"jurusan", "fakultas", "program studi", "prodi", "teknik informatika",
                          "sistem informasi", "manajemen", "akuntansi", "hukum", "psikologi",
                          "komunikasi", "apa saja jurusan", "daftar jurusan", "berikan jurusan"}
      uibDirectKeywords == {"sertifikasi uib", "webinar uib", "acara uib", "oktober uib",
                            "november uib", "desember uib", "pendaftaran uib", "event uib",
                            "kegiatan uib", "seminar uib", "workshop uib", "pelatihan uib",
                            "universitas internasional batam"}
      contactKeys == {"kontak", "email", "website", "situs", "alamat", "telepon", "hubungi"}
      monthEventPatterns == {"webinar november", "sertifikasi november", "acara november",
                             "event november", "seminar november", "workshop november", "nov ",
                             "webinar oktober", "sertifikasi oktober", "webinar desember",
                             "sertifikasi desember", "okt ", "des ", "november 2025",
                             "oktober 2025", "desember 2025"}
      genericEventKeys == {"acara", "event", "seminar", "webinar", "sertifikasi", "pelatihan",
                           "workshop"}
      otherCampusHints == {"universitas indonesia", "ui ", "ugm", "gadjah mada", "itb", "ipb",
                           "airlangga", "binus"}
      mentionsTitle(queryLower, titleLower) ==
        titleLower # "" /\ (Contains(queryLower, titleLower)
                            \/ Contains(titleLower, TrimSpace(queryLower)))
      analyze(queryLower) ==
        IF has(queryLower, jurusanKeywords) THEN FALSE
        ELSE \/ has(queryLower, uibDirectKeywords)
             \/ (Contains(queryLower, "uib") /\ has(queryLower, contactKeys))
             \/ has(queryLower, monthEventPatterns)
             \/ containsNumericMonth(queryLower)
             \/ (has(queryLower, genericEventKeys) /\ ~has(queryLower, otherCampusHints))
             \/ \E ev \in Range(GetAllEvents) :
                  mentionsTitle(queryLower, ToLower(TrimSpace(ev.Title)))
  IN  analyze(ToLower(query))

\* GetRelevantEventsForQuery, called at the instant t in the time zone `zone`
GetRelevantEventsForQuery(query, t, zone) ==
  LET inRange(ev, rng) == LET within(d) == d.ok /\ d.t >= rng.start /\ d.t <= rng.end
                          IN  within(ParseDate(ev.Date))
      prefilter(rng) ==
        IF rng.ok THEN SelectSeq(GetAllEvents, LAMBDA ev : inRange(ev, rng)) ELSE GetAllEvents
      finish(relevantEvents) ==
        IF relevantEvents = << >> /\ AnalyzeQueryForUIB(query)
        THEN GetUpcomingEvents(t)
        ELSE relevantEvents
      orAllOfKind(matched, allEvents, monthPrefixes, requiredType) ==
        IF matched # << >> THEN matched
        ELSE SelectSeq(allEvents,
                       LAMBDA ev : ~isFilteredOut(ev, monthPrefixes, requiredType)
                                   /\ (monthPrefixes # {} \/ requiredType # ""))
      select(queryLower, allEvents, monthPrefixes, requiredType) ==
        finish(orAllOfKind(
                 SelectSeq(allEvents,
                           LAMBDA ev : ~isFilteredOut(ev, monthPrefixes, requiredType)
                                       /\ isEventRelevantToQuery(ev, queryLower)),
                 allEvents, monthPrefixes, requiredType))
      run(queryLower) ==
        select(queryLower, prefilter(detectRelativeRange(queryLower, t, zone)),
               detectMonthPrefixes(queryLower), detectEventType(queryLower))
  IN  run(ToLower(query))

(***************************************************************************)
(* float64 quotients of counts, as fractions in lowest terms               *)
(***************************************************************************)
RECURSIVE GCD(_, _)
GCD(a, b) == IF b = 0 THEN a ELSE GCD(b, a % b)

Frac(n, d) == IF n = 0 THEN <<0, 1>> ELSE <<n \div GCD(n, d), d \div GCD(n, d)>>

Zero == <<0, 1>>
One == <<1, 1>>

(***************************************************************************)
(* cmd/abscore: the scorer                                                 *)
(***************************************************************************)
predictedTitles(resp) ==
  LET found(respL) ==
        {ev.Title : ev \in {e \in Range(GetAllEvents) :
                              ToLower(e.Title) # "" /\ Contains(respL, ToLower(e.Title))}}
  IN  found(ToLower(resp))

\* lower-cased title -> ID; a later event with the same title overwrites an earlier one
buildTitleToIDMap ==
  LET all == GetAllEvents
      last(tl) == CHOOSE i \in DOMAIN all :
                    /\ ToLower(all[i].Title) = tl
                    /\ \A j \in DOMAIN all : ToLower(all[j].Title) = tl => j <= i
  IN  [tl \in {ToLower(all[i].Title) : i \in DOMAIN all} \ {""} |-> all[last(tl)].ID]

predictedIDsFromResponse(resp, title2id) ==
  LET found(respL) ==
        {title2id[titleL] : titleL \in {tl \in DOMAIN title2id : tl # "" /\ Contains(respL, tl)}}
  IN  found(ToLower(resp))

isNextWeekQuery(lq) == Contains(lq, "minggu depan") \/ Contains(lq, "pekan depan")

\* the scorer's own next-week window, counted from 2025-10-04 in the local zone
nextWeekOfPromptDate(zone) ==
  LET base == 3
      daysUntilNextMon(wd) == IF (8 - wd) % 7 = 0 THEN 7 ELSE (8 - wd) % 7
      range(start) == [start |-> start, end |-> start + 24 * 6]
  IN  range(LocalMidnight(base + daysUntilNextMon(Weekday(base)), zone))

inNextWeekOfPromptDate(ev, zone) ==
  LET within(d, w) == d.ok /\ d.t >= w.start /\ d.t <= w.end
  IN  within(ParseDate(ev.Date), nextWeekOfPromptDate(zone))

monthFromQuery(q) ==
  LET month(l) ==
        IF Contains(l, "oktober") \/ Contains(l, " okt ") \/ Contains(l, " 10") THEN "2025-10"
        ELSE IF Contains(l, "november") \/ Contains(l, " nov ") \/ Contains(l, " 11") THEN "2025-11"
        ELSE IF Contains(l, "desember") \/ Contains(l, " des ") \/ Contains(l, " 12") THEN "2025-12"
        ELSE ""
  IN  month(ToLower(q))

\* the events of the month the query names: GetEventsByMonth(strings.Split(m, "-")[1])
monthFallback(q) ==
  LET events(m) == IF m # "" THEN GetEventsByMonth(Split(m, "-")[2]) ELSE << >>
  IN  events(monthFromQuery(q))

relevantTitles(q, t, zone) ==
  LET titles(events) ==
        IF isNextWeekQuery(ToLower(q))
        THEN {ev.Title : ev \in {e \in Range(events) : inNextWeekOfPromptDate(e, zone)}}
        ELSE IF events = << >> THEN {ev.Title : ev \in Range(monthFallback(q))}
        ELSE {ev.Title : ev \in Range(events)}
  IN  titles(GetRelevantEventsForQuery(q, t, zone))

\* variant of containsAllTitles that compares titles case-sensitively
containsAllTitles_caseSensitive(resp, titles) ==
  LET present(tt) == tt # "" /\ Contains(resp, tt)
  IN  [hit |-> Cardinality({i \in DOMAIN titles : present(titles[i])}),
       missing |-> SelectSeq(titles, LAMBDA tt : tt # "" /\ ~present(tt))]

containsAllTitles(resp, titles) ==
  LET present(rlow, tt) == tt # "" /\ Contains(rlow, ToLower(tt))
      count(rlow) ==
        [hit |-> Cardinality({i \in DOMAIN titles : present(rlow, titles[i])}),
         missing |-> SelectSeq(titles, LAMBDA tt : tt # "" /\ ~present(rlow, tt))]
  IN  count(ToLower(resp))

hasFormatHints(resp) ==
  LET both(r) == Contains(r, "tanggal") /\ Contains(r, "lokasi")
  IN  both(ToLower(resp))

extractEmailsUIB(resp) ==
  LET strip(kept) ==
        [i \in DOMAIN kept |->
           Trim(kept[i], {".", ",", ";", ":", "(", ")", "[", "]", "{", "}", "\n", "\t"})]
  IN  strip(SelectSeq(FieldsFunc(ToLower(resp), {" ", "\n", "\t", ",", ";", ")", "("}),
                      LAMBDA tok : Contains(tok, "@uib.ac.id")))

\* variant of containsURL that only recognises plain http://
containsURL_plainHTTP(resp) == Contains(ToLower(resp), "http://")

containsURL(resp) ==
  LET any(r) == Contains(r, "http://") \/ Contains(r, "https://")
  IN  any(ToLower(resp))

\* variant of f1Score taking the arithmetic mean instead of the harmonic mean
f1Score_arithmeticMean(precision, recall) ==
  Frac(precision[1] * recall[2] + recall[1] * precision[2], 2 * precision[2] * recall[2])

f1Score(precision, recall) ==
  IF precision[1] * recall[2] + recall[1] * precision[2] = 0
  THEN Zero
  ELSE Frac(2 * precision[1] * recall[1],
            precision[1] * recall[2] + recall[1] * precision[2])

\* variant of countRule that is content with two titles
countRule_twoTitles(lq, resp) ==
  IF Contains(lq, "3 event") \/ Contains(lq, "tiga event")
  THEN (IF Cardinality(predictedTitles(resp)) < 2 THEN <<"less than 3 events listed">> ELSE << >>)
  ELSE << >>

\* "3 event" queries: at least three catalog titles in the response
countRule(lq, resp) ==
  IF Contains(lq, "3 event") \/ Contains(lq, "tiga event")
  THEN (IF Cardinality(predictedTitles(resp)) < 3 THEN <<"less than 3 events listed">> ELSE << >>)
  ELSE << >>

\* variant of contactRule that accepts only addresses found in the catalog
contactRule_catalogOnly(lq, rl, resp) ==
  LET known == {ToLower(TrimSpace(e.Contact)) : e \in Range(GetAllEvents)} \ {""}
      hasValid(emails) == \E i \in DOMAIN emails : emails[i] \in known
  IN  IF Contains(lq, "kontak") \/ Contains(lq, "situs") \/ Contains(lq, "rujukan")
      THEN (IF ~hasValid(extractEmailsUIB(resp)) /\ ~Contains(rl, "tidak tersedia dalam data")
            THEN <<"no @uib.ac.id or placeholder">> ELSE << >>)
      ELSE << >>

\* contact queries: an address ending in @uib.ac.id, or the placeholder
contactRule(lq, rl, resp) ==
  LET hasValid(emails) == \E i \in DOMAIN emails : HasSuffix(ToLower(emails[i]), "@uib.ac.id")
  IN  IF Contains(lq, "kontak") \/ Contains(lq, "situs") \/ Contains(lq, "rujukan")
      THEN (IF ~hasValid(extractEmailsUIB(resp)) /\ ~Contains(rl, "tidak tersedia dalam data")
            THEN <<"no @uib.ac.id or placeholder">> ELSE << >>)
      ELSE << >>

\* variant of complianceResult that stops at the first violated rule
complianceResult_firstOnly(reasons) ==
  [ok |-> Len(reasons) = 0, reasons |-> IF Len(reasons) > 0 THEN <<reasons[1]>> ELSE << >>]

\* return len(reasons) == 0, reasons
complianceResult(reasons) == [ok |-> Len(reasons) = 0, reasons |-> reasons]

checkFormatComplianceWithService(q, resp) ==
  LET when(cond, reason) == IF cond THEN <<reason>> ELSE << >>
      months == <<"oktober", "november", "desember">>
      isURL(tl) == HasPrefix(tl, "http://") \/ HasPrefix(tl, "https://")
      urlCount(toks) == Cardinality({i \in DOMAIN toks : isURL(ToLower(toks[i]))})
      generic(lq, rl) ==
        IF Contains(lq, "event") \/ Contains(lq, "webinar") \/ Contains(lq, "sertifikasi")
           \/ Contains(lq, "seminar")
        THEN when(~Contains(rl, "tanggal"), "missing: tanggal")
               \o when(~(Contains(rl, "lokasi") \/ Contains(rl, "tempat")),
                       "missing: lokasi/tempat")
        ELSE << >>
      facets(lq, rl) ==
        IF (Contains(lq, "webinar") /\ (Contains(lq, "certification") \/ Contains(lq, "sertifikasi")))
           \/ Contains(lq, "pisahkan per tipe")
        THEN when(~(Contains(rl, "webinar")
                    /\ (Contains(rl, "sertifikasi") \/ Contains(rl, "certification"))),
                  "missing: webinar+sertifikasi facets")
        ELSE << >>
      headings(lq, rl) ==
        IF Contains(lq, "per bulan")
        THEN when(~Contains(rl, months[1]), "missing month heading: " \o months[1])
               \o when(~Contains(rl, months[2]), "missing month heading: " \o months[2])
               \o when(~Contains(rl, months[3]), "missing month heading: " \o months[3])
        ELSE << >>
      images(lq, rl) ==
        IF Contains(lq, "gambar")
        THEN when(urlCount(Fields(resp)) < 3, "less than 3 image URLs")
               \o when(~Contains(rl, "sumber"), "missing: sumber")
        ELSE << >>
      check(lq, rl) ==
        complianceResult(generic(lq, rl) \o facets(lq, rl) \o headings(lq, rl)
                           \o countRule(lq, resp) \o images(lq, rl)
                           \o contactRule(lq, rl, resp))
  IN  check(ToLower(q), ToLower(resp))

evalWithUIBService(q, resp, t, zone) ==
  LET titlesOf(events) == [i \in DOMAIN events |-> events[i].Title]
      ranged(events) ==
        IF isNextWeekQuery(ToLower(q))
        THEN titlesOf(SelectSeq(events, LAMBDA ev : inNextWeekOfPromptDate(ev, zone)))
        ELSE titlesOf(events)
      orMonth(titles) == IF Len(titles) = 0 THEN titlesOf(monthFallback(q)) ELSE titles
      facetMissing(lq, rl) ==
        /\ Contains(lq, "webinar") /\ Contains(lq, "certification")
        /\ ~(Contains(rl, "webinar")
             /\ (Contains(rl, "certification") \/ Contains(rl, "sertifikasi")))
      withFacet(notes, missing) ==
        IF missing THEN (IF notes # "" THEN notes \o " | " ELSE "") \o "facet-missing" ELSE notes
      outcome(titles, res) ==
        [cov |-> Frac(res.hit, Len(titles)), fmt |-> hasFormatHints(resp),
         notes |-> withFacet(IF Len(res.missing) > 0
                             THEN "missing: " \o Join(res.missing, "; ") ELSE "",
                             facetMissing(ToLower(q), ToLower(resp)))]
      eval(titles) ==
        IF Len(titles) = 0
        THEN [cov |-> Zero, fmt |-> hasFormatHints(resp), notes |-> "no-ground-truth"]
        ELSE outcome(titles, containsAllTitles(resp, titles))
  IN  eval(orMonth(ranged(GetRelevantEventsForQuery(q, t, zone))))

\* variant of precisionOf that scores an empty prediction as 0
precisionOf_zeroWhenEmpty(predSet, relSet) ==
  LET ratio(tp, predN) == IF predN = 0 THEN Zero ELSE Frac(tp, predN)
  IN  ratio(Cardinality({tt \in predSet : tt \in relSet}), Cardinality(predSet))

\* tp / predN over the predicted titles, 1.0 when nothing is predicted
precisionOf(predSet, relSet) ==
  LET ratio(tp, predN) == IF predN = 0 THEN One ELSE Frac(tp, predN)
  IN  ratio(Cardinality({tt \in predSet : tt \in relSet}), Cardinality(predSet))

precisionAndFabrication(q, resp, t, zone) ==
  LET allowed(relEvents) ==
        {ToLower(TrimSpace(ev.Contact)) :
           ev \in {e \in Range(relEvents) : TrimSpace(e.Contact) # ""}}
      fabricated(emails, allow) == \E i \in DOMAIN emails : emails[i] \notin allow
  IN  [precision |-> precisionOf(predictedTitles(resp), relevantTitles(q, t, zone)),
       usedPlaceholder |-> Contains(ToLower(resp), "tautan tidak tersedia dalam data"),
       fabContact |-> fabricated(extractEmailsUIB(resp),
                                 allowed(GetRelevantEventsForQuery(q, t, zone))),
       fabLink |-> containsURL(resp)]

\* the relevant IDs a result carries, as main trims and collects them
hintedIDs(r) == {TrimSpace(r.RelevantEventIDs[i]) : i \in DOMAIN r.RelevantEventIDs} \ {""}

\* variant of coverageByID that divides by the number of predicted IDs
coverageByID_overPredicted(predIDs, relSet) ==
  IF predIDs = {} THEN Zero
  ELSE Frac(Cardinality({id \in predIDs : id \in relSet}), Cardinality(predIDs))

\* ID-based recall: the hinted IDs whose titles the response mentions
coverageByID(predIDs, relSet) ==
  Frac(Cardinality({id \in predIDs : id \in relSet}), Cardinality(relSet))

\* one iteration of main's loop over summary.Results, run at instant t:
\* the ScoreRow it appends, and fmtReasons
scoreResult(r, t, zone) ==
  LET coverage(cov, relSet) ==
        IF Len(r.RelevantEventIDs) > 0 /\ Cardinality(relSet) > 0
        THEN coverageByID(predictedIDsFromResponse(r.Response, buildTitleToIDMap), relSet)
        ELSE cov
      withReasons(notes, reasons) ==
        IF Len(reasons) > 0
        THEN (IF notes # "" THEN notes \o " | " ELSE "") \o Join(reasons, "; ")
        ELSE notes
      scoreRow(cov, notes, pf, fc) ==
        [Query |-> r.Query, Mode |-> r.Mode, Coverage |-> cov, Precision |-> pf.precision,
         F1 |-> f1Score(pf.precision, cov), FormatOK |-> fc.ok,
         Notes |-> withReasons(notes, fc.reasons),
         FabContact |-> pf.fabContact, FabLink |-> pf.fabLink,
         UsedPlaceholder |-> pf.usedPlaceholder]
      build(ev, pf, fc) ==
        [row |-> scoreRow(coverage(ev.cov, hintedIDs(r)), ev.notes, pf, fc),
         fmtReasons |-> fc.reasons]
  IN  build(evalWithUIBService(r.Query, r.Response, t, zone),
            precisionAndFabrication(r.Query, r.Response, t, zone),
            checkFormatComplianceWithService(r.Query, r.Response))

(***************************************************************************)
(* Inputs: the results a run of cmd/abtest may have written                *)
(***************************************************************************)
Queries ==
  {"sertifikasi oktober", "webinar november", "webinar minggu depan", "event pekan depan",
   "3 event webinar oktober", "5 event webinar oktober", "kontak situs uib",
   "gambar kampus", "tiga event sertifikasi", "ringkasan per bulan", "webinar dan sertifikasi", "halo"}

Responses ==
  {"Sertifikasi Digital Marketing",
   "Tanggal 6 Oktober, lokasi kampus: Webinar AI, Webinar Data, Webinar Karir (karir@uib.ac.id)",
   "WEBINAR AI di tempat daring, hubungi palsu@uib.ac.id.",
   "Hubungi Cert@uib.ac.id; tautan tidak tersedia dalam data. Lihat https://uib.ac.id",
   "Sumber: http://a.id/1 HTTPS://a.id/2 https://a.id/3",
   "Oktober: Webinar AI. November: Sertifikasi Cloud. Desember: -",
   "Webinar Karir dan Webinar Data",
   "Maaf, belum ada jawaban."}

Hints == {<< >>, <<"E1">>, <<" E2 ", "E3">>, <<" ">>}

HintedQueries == {"sertifikasi oktober", "webinar november", "webinar minggu depan"}

Results ==
  {[Query |-> q, Mode |-> "baseline", Response |-> resp, RelevantEventIDs |-> << >>] :
     q \in Queries, resp \in Responses}
  \cup
  {[Query |-> q, Mode |-> "engineered", Response |-> resp, RelevantEventIDs |-> h] :
     q \in HintedQueries, resp \in Responses, h \in Hints \ {<< >>}}

TimeZones == {0, 7}

\* the first run starts on 2025-10-04 at 08:00Z; the clock moves in steps of TickHours
StartHour == 80
TickHours == 84
MaxTicks == 2

NoRow == [Query |-> "", Mode |-> "none"]

\* nothing computed yet
None == [kind |-> "none"]

\* no environment variable is set
NoEnv ==
  [ABJUDGE_IMPORT_RATINGS |-> "", ABJUDGE_RATER_NAMES |-> "", ABJUDGE_SEED |-> "",
   ABJUDGE_METRIC_SHAPE_08 |-> "", ABJUDGE_FORCE_SIGNIFICANT |-> ""]

\* raterNames := []string{"A", "B"}
DefaultRaters == <<"A", "B">>

\* main: ABJUDGE_RATER_NAMES is split at the commas, the parts are trimmed and
\* the empty ones dropped; exactly two parts replace the default names
configuredRaters(e) ==
  LET s == TrimSpace(e.ABJUDGE_RATER_NAMES)
      parts == Split(s, ",")
      tmp == SelectSeq([i \in DOMAIN parts |-> TrimSpace(parts[i])], LAMBDA part : part # "")
  IN  IF s # "" /\ Len(tmp) = 2 THEN tmp ELSE DefaultRaters

\* m[k] = v of a Go map
put(m, k, v) == [x \in DOMAIN m \cup {k} |-> IF x = k THEN v ELSE m[x]]

\* delete(m, k) of a Go map
remove(m, k) == [x \in DOMAIN m \ {k} |-> m[x]]

\* window = 10 * time.Second, in milliseconds
DefaultWindow == 10000

\* capacity = 5
DefaultCapacity == 5

\* dupTTL = 45 * time.Second, in milliseconds
DefaultDupTTL == 45000

\* a rating run that has not started
RunFresh ==
  /\ startedAt = 0
  /\ runs = {}
  /\ errOut = None
  /\ files = << >>

\* the package variables of middleware and cache before any call
GuardIdle ==
  /\ dupTTL = DefaultDupTTL
  /\ lastMsg = << >>
  /\ calls = << >>
  /\ verdict = None

CacheIdle ==
  /\ cacheItems = << >>
  /\ stored = << >>
  /\ reply = None

RateIdle ==
  /\ window = DefaultWindow
  /\ capacity = DefaultCapacity
  /\ refillPerWd = DefaultCapacity
  /\ buckets = << >>
  /\ requests = << >>
  /\ served = None
  /\ admitted = << >>

WebIdle ==
  /\ clock = 0
  /\ GuardIdle
  /\ CacheIdle
  /\ RateIdle

\* the statistics variables while a single result is being scored
StatIdle ==
  /\ pc = "score"
  /\ env = NoEnv
  /\ raterNames = DefaultRaters
  /\ itemList = << >>
  /\ rows = << >>
  /\ csv = << >>
  /\ importErr = ""
  /\ ratings = << >>
  /\ vectors = None
  /\ paired = None
  /\ irr = None
  /\ tests = None
  /\ RunFresh

\* the scorer variables while the statistics are being exercised
ScorerIdle ==
  /\ now = StartHour
  /\ tz = 0
  /\ rec = [Query |-> "", Mode |-> "none", Response |-> "", RelevantEventIDs |-> << >>]
  /\ row = NoRow
  /\ prevRow = NoRow
  /\ fmtReasons = << >>
  /\ stamp = 0

ScoreIdle == ScorerIdle /\ WebIdle

(***************************************************************************)
(* The state machine: a result is scored, and scored again by later runs   *)
(***************************************************************************)
Init ==
  /\ now = StartHour
  /\ tz \in TimeZones
  /\ rec \in Results
  /\ row = NoRow
  /\ prevRow = NoRow
  /\ fmtReasons = << >>
  /\ stamp = 0
  /\ StatIdle
  /\ WebIdle

\* the wall clock advances
Tick ==
  /\ now < StartHour + MaxTicks * TickHours
  /\ now' = now + TickHours
  /\ UNCHANGED <<tz, rec, row, prevRow, fmtReasons, stamp>>
  /\ UNCHANGED statVars
  /\ UNCHANGED webVars

\* a run of the scorer reaches the result and appends its ScoreRow
ScoreRecord ==
  /\ \E res \in {scoreResult(rec, now, tz)} :
       /\ row' = res.row
       /\ fmtReasons' = res.fmtReasons
  /\ prevRow' = row
  /\ stamp' = now
  /\ UNCHANGED <<now, tz, rec>>
  /\ UNCHANGED statVars
  /\ UNCHANGED webVars

Next == Tick \/ ScoreRecord

Spec == Init /\ [][Next]_vars

(***************************************************************************)
(* Properties of a scored record.  row is the ScoreRow of the latest run,  *)
(* stamp the instant of that run, rec the record that was scored.          *)
(***************************************************************************)
Scored == row # NoRow

CatalogEvents == Range(GetAllEvents)

ContainsFold(s, sub) == Contains(ToLower(s), ToLower(sub))

InQuery(kw) == ContainsFold(rec.Query, kw)

InResponse(kw) == ContainsFold(rec.Response, kw)

\* the catalog entries whose title occurs in the response
MentionedEvents == {c \in CatalogEvents : c.Title # "" /\ InResponse(c.Title)}

MentionedTitles == {c.Title : c \in MentionedEvents}

MentionedIDs == {c.ID : c \in MentionedEvents}

\* the non-blank relevant_ids of the record
HintSet == hintedIDs(rec)

HintedTitles == {c.Title : c \in {e \in CatalogEvents : e.ID \in HintSet}}

\* the titles the scorer derived from the query text in the latest run
QueryTitles == relevantTitles(rec.Query, stamp, tz)

InUnit(f) == f[1] >= 0 /\ f[2] > 0 /\ f[1] <= f[2]

\* |A \cap B| / |B|, for non-empty B
Ratio(A, B) == Frac(Cardinality(A \cap B), Cardinality(B))

(***************************************************************************)
(* C1                                                                      *)
(***************************************************************************)
\* C1, as stated: when a record carries non-blank relevant_ids, recall AND
\* precision are both scored against exactly those IDs, so a response that
\* names every hinted entry and no other entry gets precision = recall =
\* F1 = 1, whatever the query is.
C1_HintsScoreRecallAndPrecision ==
  (Scored /\ HintSet # {}) =>
     /\ row.Coverage = Ratio(MentionedIDs, HintSet)
     /\ row.Precision = (IF MentionedIDs = {} THEN One ELSE Ratio(HintSet, MentionedIDs))
     /\ (MentionedIDs = HintSet =>
           row.Precision = One /\ row.Coverage = One /\ row.F1 = One)

\* C1, amended: with non-blank relevant_ids, recall is scored against
\* exactly those IDs, while precision is still scored against the titles
\* derived from the query; a response naming exactly the hinted entries gets
\* recall 1, and gets precision = F1 = 1 exactly when every hinted title is
\* among the query-derived titles.
C1_HintsScoreRecallOnly ==
  (Scored /\ HintSet # {}) =>
     LET holds(hinted, ids, titles, derived) ==
           /\ row.Coverage = Ratio(ids, hinted)
           /\ row.Precision = (IF titles = {} THEN One ELSE Ratio(derived, titles))
           /\ (ids = hinted =>
                 /\ row.Coverage = One
                 /\ (row.Precision = One /\ row.F1 = One) <=> (HintedTitles \subseteq derived))
     IN  holds(HintSet, MentionedIDs, MentionedTitles, QueryTitles)

\* a response naming exactly the hinted entries, scored with full recall
\* and less than full precision
C1_Witness ==
  /\ Scored
  /\ HintSet # {}
  /\ MentionedIDs = HintSet
  /\ row.Coverage = One
  /\ row.Precision # One

(***************************************************************************)
(* C2                                                                      *)
(***************************************************************************)
\* C2: precision is |predicted \cap relevant| / |predicted|, where predicted
\* is the set of catalog titles occurring case-insensitively in the response
\* and relevant the titles derived from the query; it is 1 when nothing is
\* predicted and always lies in [0,1].
C2_PrecisionOverPredicted ==
  Scored =>
     LET holds(predicted) ==
           /\ InUnit(row.Precision)
           /\ (predicted = {} => row.Precision = One)
           /\ (predicted # {} => row.Precision = Ratio(QueryTitles, predicted))
     IN  holds(MentionedTitles)

\* a response with some relevant and some irrelevant titles
C2_Witness ==
  /\ Scored
  /\ MentionedTitles # {}
  /\ row.Precision # Zero
  /\ row.Precision # One

RelevantSet == IF HintSet # {} THEN HintSet ELSE QueryTitles

\* C4, as stated: with non-empty relevant and predicted sets, F1 is 0 if
\* and only if precision is 0 and recall is 0.
C4_F1ZeroIffBothZero ==
  (Scored /\ RelevantSet # {} /\ MentionedTitles # {}) =>
     (row.F1 = Zero <=> (row.Precision = Zero /\ row.Coverage = Zero))

\* C4, amended: F1 = 2PR/(P+R), 0 when P+R = 0, so F1 is 0 if and only if
\* precision is 0 or recall is 0; precision and recall are zero together
\* only for records without relevant_ids (with non-empty relevant and
\* predicted sets).
C4_F1ZeroIffEitherZero ==
  Scored =>
     LET P == row.Precision
         R == row.Coverage
         sum == P[1] * R[2] + R[1] * P[2]
     IN  /\ (sum = 0 => row.F1 = Zero)
         /\ (sum # 0 => row.F1[1] * sum = 2 * P[1] * R[1] * row.F1[2])
         /\ (row.F1 = Zero <=> (P = Zero \/ R = Zero))
         /\ (P = Zero <=> R = Zero)
               \/ HintSet # {} \/ MentionedTitles = {} \/ QueryTitles = {}

\* full recall, zero precision, F1 = 0
C4_Witness ==
  /\ Scored
  /\ RelevantSet # {}
  /\ MentionedTitles # {}
  /\ row.F1 = Zero
  /\ row.Coverage = One
  /\ row.Precision = Zero

(***************************************************************************)
(* C5                                                                      *)
(***************************************************************************)
\* C5: scoring the same record (same query, response, catalog and
\* relevant_ids) at two different times yields identical ScoreRows.
C5_RescoringYieldsSameRow ==
  (Scored /\ prevRow # NoRow) => row = prevRow

(***************************************************************************)
(* C6                                                                      *)
(***************************************************************************)
UrlTokens ==
  LET toks == Fields(rec.Response)
  IN  {i \in DOMAIN toks : HasPrefix(ToLower(toks[i]), "http://")
                             \/ HasPrefix(ToLower(toks[i]), "https://")}

ExtractedAddresses == Range(extractEmailsUIB(rec.Response))

ListingIntent ==
  InQuery("event") \/ InQuery("webinar") \/ InQuery("sertifikasi") \/ InQuery("seminar")

FacetIntent ==
  \/ InQuery("webinar") /\ (InQuery("certification") \/ InQuery("sertifikasi"))
  \/ InQuery("pisahkan per tipe")

ThreeEventsIntent == InQuery("3 event") \/ InQuery("tiga event")

ContactIntent == InQuery("kontak") \/ InQuery("situs") \/ InQuery("rujukan")

\* the rules of the format check, in their fixed order
FormatRules ==
  << [fires |-> ListingIntent, violated |-> ~InResponse("tanggal"),
      reason |-> "missing: tanggal"],
     [fires |-> ListingIntent, violated |-> ~(InResponse("lokasi") \/ InResponse("tempat")),
      reason |-> "missing: lokasi/tempat"],
     [fires |-> FacetIntent,
      violated |-> ~(InResponse("webinar")
                     /\ (InResponse("sertifikasi") \/ InResponse("certification"))),
      reason |-> "missing: webinar+sertifikasi facets"],
     [fires |-> InQuery("per bulan"), violated |-> ~InResponse("oktober"),
      reason |-> "missing month heading: oktober"],
     [fires |-> InQuery("per bulan"), violated |-> ~InResponse("november"),
      reason |-> "missing month heading: november"],
     [fires |-> InQuery("per bulan"), violated |-> ~InResponse("desember"),
      reason |-> "missing month heading: desember"],
     [fires |-> ThreeEventsIntent, violated |-> Cardinality(MentionedTitles) < 3,
      reason |-> "less than 3 events listed"],
     [fires |-> InQuery("gambar"), violated |-> Cardinality(UrlTokens) < 3,
      reason |-> "less than 3 image URLs"],
     [fires |-> InQuery("gambar"), violated |-> ~InResponse("sumber"),
      reason |-> "missing: sumber"],
     [fires |-> ContactIntent,
      violated |-> /\ ~\E a \in ExtractedAddresses : HasSuffix(a, "@uib.ac.id")
                   /\ ~InResponse("tidak tersedia dalam data"),
      reason |-> "no @uib.ac.id or placeholder"] >>

\* the reasons of the rules that fire and are violated, in rule order
ExpectedReasons(rules) ==
  LET reasonsOf(hit) == [i \in DOMAIN hit |-> hit[i].reason]
  IN  reasonsOf(SelectSeq(rules, LAMBDA r : r.fires /\ r.violated))

\* C6: the format check evaluates every rule whose intent keyword is in the
\* query, without short-circuiting: the reasons hold one entry per violated
\* rule, in the fixed rule order; pass is true exactly when there are no
\* reasons; with no intent keyword in the query the result is pass with no
\* reasons whatever the response is.
C6_ReasonsAccumulateInOrder ==
  Scored =>
     LET agree(rules) ==
           /\ fmtReasons = ExpectedReasons(rules)
           /\ (row.FormatOK <=> fmtReasons = << >>)
           /\ ((\A i \in DOMAIN rules : ~rules[i].fires) =>
                 row.FormatOK /\ fmtReasons = << >>)
     IN  agree(FormatRules)

\* three rules violated by one response, all three reported
C6_Witness ==
  /\ Scored
  /\ Len(fmtReasons) >= 3
  /\ ~row.FormatOK

(***************************************************************************)
(* C7                                                                      *)
(***************************************************************************)
DigitNames == <<"1", "2", "3", "4", "5", "6", "7", "8", "9">>

\* C7, as stated: for a query asking for N events, whatever N is, the
\* format check passes only if the response names at least N distinct
\* catalog titles.
C7_AnyCountEnforced ==
  Scored =>
     \A n \in DOMAIN DigitNames :
        (InQuery(DigitNames[n] \o " event") /\ row.FormatOK) =>
           Cardinality(MentionedTitles) >= n

\* C7, amended: only a query containing "3 event" or "tiga event" is held
\* to a count: it passes only if the response names at least 3 distinct
\* catalog titles; no other count is checked.
C7_OnlyThreeEnforced ==
  Scored =>
     /\ (ThreeEventsIntent /\ row.FormatOK => Cardinality(MentionedTitles) >= 3)
     /\ ("less than 3 events listed" \in Range(fmtReasons)
           <=> (ThreeEventsIntent /\ Cardinality(MentionedTitles) < 3))

\* a query for three events answered with three titles passes
C7_Witness ==
  /\ Scored
  /\ ThreeEventsIntent
  /\ Cardinality(MentionedTitles) = 3
  /\ row.FormatOK

(***************************************************************************)
(* C8                                                                      *)
(***************************************************************************)
\* the contact addresses of the catalog
CatalogContacts == {ToLower(TrimSpace(c.Contact)) : c \in CatalogEvents} \ {""}

PassesContactRule == "no @uib.ac.id or placeholder" \notin Range(fmtReasons)

\* C8, as stated: a contact/site query passes the contact rule only if the
\* response holds an address found in the catalog or the phrase "tidak
\* tersedia dalam data".
C8_ContactMustBeInCatalog ==
  (Scored /\ ContactIntent /\ PassesContactRule) =>
     \/ ExtractedAddresses \cap CatalogContacts # {}
     \/ InResponse("tidak tersedia dalam data")

\* C8, amended: a contact/site query passes the contact rule exactly when
\* the response holds a token ending in @uib.ac.id, in the catalog or not,
\* or the phrase "tidak tersedia dalam data".
C8_ContactMustBeInDomain ==
  (Scored /\ ContactIntent) =>
     (PassesContactRule <=>
        \/ \E a \in ExtractedAddresses : HasSuffix(a, "@uib.ac.id")
        \/ InResponse("tidak tersedia dalam data"))

\* an address of the domain that no catalog entry has passes the rule
C8_Witness ==
  /\ Scored
  /\ ContactIntent
  /\ PassesContactRule
  /\ ExtractedAddresses # {}
  /\ ExtractedAddresses \cap CatalogContacts = {}
  /\ ~InResponse("tidak tersedia dalam data")

(***************************************************************************)
(* C9                                                                      *)
(***************************************************************************)
\* the catalog entries the record is scored against
ScoredEntries ==
  IF HintSet # {} THEN {c \in CatalogEvents : c.ID \in HintSet}
  ELSE {c \in CatalogEvents : c.Title \in QueryTitles}

\* C9: fabricated_contact is true exactly when some extracted address is
\* not among the lower-cased contact addresses of the entries the record is
\* scored against (the hinted entries when there are hints, the
\* week-filtered entries for a next-week query).
C9_FabricatedContactAgainstScoredEntries ==
  Scored =>
     (row.FabContact <=>
        \E a \in ExtractedAddresses :
           a \notin ({ToLower(TrimSpace(c.Contact)) : c \in ScoredEntries} \ {""}))

(***************************************************************************)
(* C10                                                                     *)
(***************************************************************************)
HasURL == InResponse("http://") \/ InResponse("https://")

\* C10, as stated: fabricated_link is set when the response holds an
\* http:// or https:// token, unless the response uses the placeholder
\* phrase "tautan tidak tersedia dalam data".
C10_PlaceholderExcusesLink ==
  Scored =>
     (row.FabLink <=> (HasURL /\ ~InResponse("tautan tidak tersedia dalam data")))

\* C10, amended: fabricated_link is set exactly when the response holds
\* http:// or https:// (in any letter case), placeholder or not; the
\* placeholder phrase is reported on its own in used_placeholder.
C10_AnyLinkIsFlagged ==
  Scored =>
     /\ (row.FabLink <=> HasURL)
     /\ (row.UsedPlaceholder <=> InResponse("tautan tidak tersedia dalam data"))

\* a response with both the placeholder phrase and a link is flagged
C10_Witness ==
  /\ Scored
  /\ row.UsedPlaceholder
  /\ row.FabLink

(***************************************************************************)
(* The paired tests (cmd/abscore and cmd/abjudge hold the same code).      *)
(*                                                                         *)
(* z is kept as its sign and its square, which is a fraction:              *)
(*   z^2 = (W+ - n(n+1)/4)^2 / (n(n+1)(2n+1)/24).                          *)
(* math.Erf is tabulated: |z| is rounded down to a multiple of 1/4 (4 at   *)
(* most) and ErfTable holds 1000 * erf(|z| / sqrt 2) at these points;      *)
(* erf(0) = 0 is exact.  The sample values are dyadic fractions, whose     *)
(* float64 differences are exact.                                          *)
(***************************************************************************)
FSub(a, b) == Frac(a[1] * b[2] - b[1] * a[2], a[2] * b[2])

FAbs(a) == <<IF a[1] < 0 THEN -a[1] ELSE a[1], a[2]>>

FLess(a, b) == a[1] * b[2] < b[1] * a[2]

Sign(x) == IF x > 0 THEN 1 ELSE IF x < 0 THEN -1 ELSE 0

ErfTable ==
  <<0, 197, 383, 547, 683, 789, 866, 920, 954, 976, 988, 994, 997, 999, 1000, 1000, 1000>>

\* erf(|z| / sqrt 2) for the z whose square is zsq
ErfOfZ(zsq) ==
  LET step == SetMax({k \in 0..(Len(ErfTable) - 1) : 16 * zsq[1] >= k * k * zsq[2]})
  IN  Frac(ErfTable[step + 1], 1000)

\* variant of midRank that gives tied differences the first rank of their span
midRank_lowest(less, equal) == 2 * less + 2

\* twice the rank of a difference: the average of the positions i+1 .. j its
\* tie group spans in the sorted array, with i = less and j = less + equal
midRank(less, equal) == (less + 1) + (less + equal)

\* variant of wilcoxonNoPairs that reports certainty of a difference
wilcoxonNoPairs_significant ==
  [Wplus |-> Zero, zSign |-> 0, zSq |-> Zero, p |-> Zero, n |-> 0]

\* return 0, 0, 1, 0
wilcoxonNoPairs == [Wplus |-> Zero, zSign |-> 0, zSq |-> Zero, p |-> One, n |-> 0]

\* Wplus, z (sign and square), p and n
wilcoxonSignedRank(baseline, engineered) ==
  LET diffs == SelectSeq([i \in DOMAIN baseline |-> FSub(engineered[i], baseline[i])],
                         LAMBDA d : d # Zero)
      stats(arr, n) ==
        LET less(k) == Cardinality({m \in DOMAIN arr : FLess(FAbs(arr[m]), FAbs(arr[k]))})
            equal(k) == Cardinality({m \in DOMAIN arr : FAbs(arr[m]) = FAbs(arr[k])})
            \* twice the sum of the ranks of the positive differences among arr[1..k]
            twice[k \in 0..n] ==
              IF k = 0 THEN 0
              ELSE twice[k - 1] + (IF arr[k][1] > 0 THEN midRank(less(k), equal(k)) ELSE 0)
            \* p = 2 * (1 - math.Abs(cdf-0.5)*2), cdf - 0.5 being erf(z / sqrt 2) / 2
            pOf(erf) == FSub(<<2, 1>>, Frac(2 * erf[1], erf[2]))
            finish(w2, dev, zsq) ==
              [Wplus |-> Frac(w2, 2), zSign |-> Sign(dev), zSq |-> zsq,
               p |-> pOf(ErfOfZ(zsq)), n |-> n]
            \* dev = 4 * (Wplus - mu)
            deviate(w2, dev) ==
              finish(w2, dev, Frac(3 * dev * dev, 2 * n * (n + 1) * (2 * n + 1)))
        IN  IF n = 0 THEN wilcoxonNoPairs
            ELSE deviate(twice[n], 2 * twice[n] - n * (n + 1))
  IN  stats(diffs, Len(diffs))

\* variant of discordant that counts every pair in which the baseline fails
discordant_allBaselineFails(baselineFail, engineeredFail) ==
  [b |-> Cardinality({i \in DOMAIN baselineFail : baselineFail[i]}),
   c |-> Cardinality({i \in DOMAIN baselineFail : ~baselineFail[i] /\ engineeredFail[i]})]

\* b: baseline fails and engineered passes; c: baseline passes and engineered fails
discordant(baselineFail, engineeredFail) ==
  [b |-> Cardinality({i \in DOMAIN baselineFail : baselineFail[i] /\ ~engineeredFail[i]}),
   c |-> Cardinality({i \in DOMAIN baselineFail : ~baselineFail[i] /\ engineeredFail[i]})]

\* variant of chiSquare that clamps the corrected numerator at zero
chiSquare_clamped(b, c) ==
  LET absdiff == IF b >= c THEN b - c ELSE c - b
      num == IF absdiff >= 1 THEN absdiff - 1 ELSE 0
  IN  Frac(num * num, b + c)

\* (|b - c| - 1)^2 / (b + c), for b + c > 0
chiSquare(b, c) ==
  LET absdiff == IF b >= c THEN b - c ELSE c - b
  IN  Frac((absdiff - 1) * (absdiff - 1), b + c)

\* b, c, chi2 and p; p = 2 * (1 - Phi(sqrt chi2)) = 1 - erf(sqrt(chi2) / sqrt 2)
mcnemarTest(baselineFail, engineeredFail) ==
  LET test(d) ==
        IF d.b + d.c = 0 THEN [b |-> d.b, c |-> d.c, chi2 |-> Zero, p |-> One]
        ELSE [b |-> d.b, c |-> d.c, chi2 |-> chiSquare(d.b, d.c),
              p |-> FSub(One, ErfOfZ(chiSquare(d.b, d.c)))]
  IN  test(discordant(baselineFail, engineeredFail))

\* the test of cmd/abjudge takes 0/1 vectors: a pair fails where the entry is 1
mcnemarTestInt(baselineFail, engineeredFail) ==
  mcnemarTest([i \in DOMAIN baselineFail |-> baselineFail[i] = 1],
              [i \in DOMAIN engineeredFail |-> engineeredFail[i] = 1])

(***************************************************************************)
(* The paired tests on their own: a sample is drawn and tested             *)
(***************************************************************************)
MaxPairs == 4
MaxBinaryPairs == 6

SampleValues == {Zero, <<1, 2>>, One}

SeqsUpTo(S, n) == UNION {[1..m -> S] : m \in 0..n}

NumericSamples ==
  {[kind |-> "numeric",
    baseline |-> [i \in DOMAIN ps |-> ps[i][1]],
    engineered |-> [i \in DOMAIN ps |-> ps[i][2]]] :
     ps \in SeqsUpTo(SampleValues \X SampleValues, MaxPairs)}

BinarySamples ==
  {[kind |-> "binary",
    baselineFail |-> [i \in DOMAIN ps |-> ps[i][1]],
    engineeredFail |-> [i \in DOMAIN ps |-> ps[i][2]]] :
     ps \in SeqsUpTo(BOOLEAN \X BOOLEAN, MaxBinaryPairs)}

TestInit ==
  /\ ScoreIdle
  /\ RunFresh
  /\ pc = "tests"
  /\ env = NoEnv
  /\ raterNames = DefaultRaters
  /\ itemList = << >>
  /\ rows = << >>
  /\ csv = << >>
  /\ importErr = ""
  /\ ratings = << >>
  /\ vectors = None
  /\ paired \in NumericSamples \cup BinarySamples
  /\ irr = None
  /\ tests = None

RunWilcoxon ==
  /\ pc = "tests"
  /\ paired.kind = "numeric"
  /\ tests' = [kind |-> "wilcoxon"] @@ wilcoxonSignedRank(paired.baseline, paired.engineered)
  /\ UNCHANGED <<pc, env, raterNames, itemList, rows, csv, importErr, ratings, vectors, paired, irr>>
  /\ UNCHANGED runVars
  /\ UNCHANGED scoreVars
  /\ UNCHANGED webVars

RunMcNemar ==
  /\ pc = "tests"
  /\ paired.kind = "binary"
  /\ tests' = [kind |-> "mcnemar"] @@ mcnemarTest(paired.baselineFail, paired.engineeredFail)
  /\ UNCHANGED <<pc, env, raterNames, itemList, rows, csv, importErr, ratings, vectors, paired, irr>>
  /\ UNCHANGED runVars
  /\ UNCHANGED scoreVars
  /\ UNCHANGED webVars

TestNext == RunWilcoxon \/ RunMcNemar

TestSpec == TestInit /\ [][TestNext]_vars

(***************************************************************************)
(* Inter-rater reliability (cmd/abjudge).  The values are quotients of     *)
(* sums of small integers and are kept as exact fractions: with            *)
(* S = sum of (a - b)^2 over the rater pairs and T = sum of                *)
(* freq[c] * freq[c'] * (c - c')^2 over the categories,                    *)
(*   Do = S / ((k-1)^2 * pairs),  De = T / ((k-1)^2 * total^2).            *)
(***************************************************************************)
LikertScale == 5

\* variant of alphaNoPairs that reports no agreement
alphaNoPairs_zero == Zero

\* if pairs == 0 { return 1 }
alphaNoPairs == One

krippendorffAlphaOrdinal(items, k) ==
  LET raterPairs(it) == {pr \in (DOMAIN it) \X (DOMAIN it) : pr[1] < pr[2]}
      sq(x) == x * x
      pairsIn[n \in 0..Len(items)] ==
        IF n = 0 THEN 0 ELSE pairsIn[n - 1] + Cardinality(raterPairs(items[n]))
      squares(it) ==
        LET ps == raterPairs(it)
            pick(P) == CHOOSE pr \in P : TRUE
            sum[P \in SUBSET ps] ==
              IF P = {} THEN 0
              ELSE sq(it[pick(P)[1]] - it[pick(P)[2]]) + sum[P \ {pick(P)}]
        IN  sum[ps]
      squaresIn[n \in 0..Len(items)] ==
        IF n = 0 THEN 0 ELSE squaresIn[n - 1] + squares(items[n])
      freq(c) ==
        LET count[n \in 0..Len(items)] ==
              IF n = 0 THEN 0
              ELSE count[n - 1] + Cardinality({i \in DOMAIN items[n] : items[n][i] = c})
        IN  count[Len(items)]
      total[c \in 0..k] == IF c = 0 THEN 0 ELSE total[c - 1] + freq(c)
      expected ==
        LET against(c) ==
              LET acc[cp \in 0..k] ==
                    IF cp = 0 THEN 0 ELSE acc[cp - 1] + freq(c) * freq(cp) * sq(c - cp)
              IN  acc[k]
            all[c \in 0..k] == IF c = 0 THEN 0 ELSE all[c - 1] + against(c)
        IN  all[k]
      clamp(alpha) ==
        IF alpha[1] < -alpha[2] THEN <<-1, 1>>
        ELSE IF alpha[1] > alpha[2] THEN One
        ELSE alpha
      finish(pairs, S, tot, T) ==
        IF pairs = 0 THEN alphaNoPairs
        ELSE IF tot = 0 THEN Zero
        ELSE IF T = 0 THEN One
        ELSE clamp(Frac(pairs * T - S * tot * tot, pairs * T))
  IN  finish(pairsIn[Len(items)], squaresIn[Len(items)], total[k], expected)

\* variant of kappaCertainChance that reports no agreement
kappaCertainChance_zero == Zero

\* if pe == 1 { return 1 }
kappaCertainChance == One

cohensKappaBinary(a, b) ==
  LET count(x, y) == Cardinality({i \in DOMAIN a : a[i] = x /\ b[i] = y})
      \* po = agree / n, pe = chance / n^2
      kappa(n, agree, chance) ==
        IF chance = n * n THEN kappaCertainChance
        ELSE Frac(agree * n - chance, n * n - chance)
      table(n11, n10, n01, n00) ==
        kappa(n11 + n10 + n01 + n00, n00 + n11,
              (n10 + n11) * (n01 + n11) + (n01 + n00) * (n10 + n00))
      tally(n11, n10, n01) == table(n11, n10, n01, Len(a) - n11 - n10 - n01)
  IN  IF Len(a) # Len(b) \/ Len(a) = 0 THEN Zero
      ELSE tally(count(1, 1), count(1, 0), count(0, 1))

(***************************************************************************)
(* alpha and kappa on their own: rating vectors are drawn and measured     *)
(***************************************************************************)
MaxItems == 2
MaxLabels == 4

LikertSamples ==
  {[kind |-> "likert", relItems |-> items] :
     items \in SeqsUpTo([1..2 -> 1..LikertScale], MaxItems)}

LabelSamples ==
  {[kind |-> "labels",
    accA |-> [i \in DOMAIN ps |-> ps[i][1]],
    accB |-> [i \in DOMAIN ps |-> ps[i][2]]] :
     ps \in SeqsUpTo({0, 1} \X {0, 1}, MaxLabels)}

IRRInit ==
  /\ ScoreIdle
  /\ RunFresh
  /\ pc = "irr"
  /\ env = NoEnv
  /\ raterNames = DefaultRaters
  /\ itemList = << >>
  /\ rows = << >>
  /\ csv = << >>
  /\ importErr = ""
  /\ ratings = << >>
  /\ vectors \in LikertSamples \cup LabelSamples
  /\ paired = None
  /\ irr = None
  /\ tests = None

ComputeAlpha ==
  /\ pc = "irr"
  /\ vectors.kind = "likert"
  /\ irr' = [kind |-> "alpha",
             value |-> krippendorffAlphaOrdinal(vectors.relItems, LikertScale)]
  /\ UNCHANGED <<pc, env, raterNames, itemList, rows, csv, importErr, ratings, vectors, paired, tests>>
  /\ UNCHANGED runVars
  /\ UNCHANGED scoreVars
  /\ UNCHANGED webVars

ComputeKappa ==
  /\ pc = "irr"
  /\ vectors.kind = "labels"
  /\ irr' = [kind |-> "kappa", value |-> cohensKappaBinary(vectors.accA, vectors.accB)]
  /\ UNCHANGED <<pc, env, raterNames, itemList, rows, csv, importErr, ratings, vectors, paired, tests>>
  /\ UNCHANGED runVars
  /\ UNCHANGED scoreVars
  /\ UNCHANGED webVars

IRRNext == ComputeAlpha \/ ComputeKappa

IRRSpec == IRRInit /\ [][IRRNext]_vars

(***************************************************************************)
(* Import of a filled ratings file (cmd/abjudge).  A file is the sequence  *)
(* of records encoding/csv reads from it, each a sequence of cells.        *)
(***************************************************************************)
RequiredColumns ==
  <<"query", "mode", "rater", "relevance", "accuracy", "completeness", "usefulness",
    "json_valid">>

\* the files that exist, by path
Files == {"filled.csv"}

DigitStr == <<"0", "1", "2", "3", "4", "5", "6", "7", "8", "9">>

\* fmt.Sprintf("%d", n)
RECURSIVE FormatInt(_)
FormatInt(n) ==
  IF n < 0 THEN "-" \o FormatInt(-n)
  ELSE IF n < 10 THEN DigitStr[n + 1]
  ELSE FormatInt(n \div 10) \o DigitStr[(n % 10) + 1]

\* strconv.Atoi: an optional sign and then one or more decimal digits
strconvAtoi(s) ==
  LET signed == Len(s) > 0 /\ Char(s, 1) \in {"+", "-"}
      digits == IF signed THEN SubSeq(s, 2, Len(s)) ELSE s
      ok == digits # "" /\ IsDigits(digits)
  IN  [ok |-> ok,
       value |-> IF ~ok THEN 0
                 ELSE IF signed /\ Char(s, 1) = "-" THEN -Atoi(digits)
                 ELSE Atoi(digits)]

\* csv.Reader.ReadAll: every record has as many fields as the first one
ReadAll(records) ==
  IF \E i \in DOMAIN records : Len(records[i]) # Len(records[1])
  THEN [err |-> "record on line: wrong number of fields", records |-> << >>]
  ELSE [err |-> "", records |-> records]

\* idx: the first column whose trimmed name equals name without regard to
\* case, 0 when there is none (the code counts from 0 and returns -1)
idx(header, name) ==
  LET hits == {i \in DOMAIN header : EqualFold(TrimSpace(header[i]), name)}
  IN  IF hits = {} THEN 0 ELSE SetMin(hits)

\* variant of headerError that insists on exactly the eight columns in any order
headerError_exactlyEight(header) ==
  IF Len(header) # Len(RequiredColumns)
  THEN "invalid header: first column must be 'query'"
  ELSE LET missing == {k \in DOMAIN RequiredColumns : idx(header, RequiredColumns[k]) = 0}
       IN  IF missing = {} THEN ""
           ELSE "missing column " \o RequiredColumns[SetMin(missing)]

\* the check of the header: "" when it is accepted
headerError(header) ==
  IF Len(header) < 8 \/ ToLower(TrimSpace(header[1])) # "query"
  THEN "invalid header: first column must be 'query'"
  ELSE LET missing == {k \in DOMAIN RequiredColumns : idx(header, RequiredColumns[k]) = 0}
       IN  IF missing = {} THEN ""
           ELSE "missing column " \o RequiredColumns[SetMin(missing)]

\* if len(strings.TrimSpace(strings.Join(line, ""))) == 0 { continue }
blankLine(line) == TrimSpace(Join(line, "")) = ""

\* one data line: the RatingRow it holds, or the error it raises; columns
\* maps each required name to idx of it, which is the same for every line
parseLine(columns, line) ==
  LET get(col) ==
        LET i == columns[col]
        IN  IF i >= 1 /\ i <= Len(line) THEN TrimSpace(line[i]) ELSE ""
      parseInt(col) ==
        LET v == get(col)
            r == strconvAtoi(v)
        IN  IF v = "" THEN [err |-> "missing value for " \o col, value |-> 0]
            ELSE IF ~r.ok THEN [err |-> "bad int for " \o col, value |-> 0]
            ELSE [err |-> "", value |-> r.value]
      fail(e) == [err |-> e, row |-> << >>]
      build(q, m, rt, rel, acc, comp, use, js) ==
        IF q = "" \/ m = "" \/ rt = "" THEN fail("invalid row (query/mode/rater)")
        ELSE IF rel.err # "" THEN fail(rel.err)
        ELSE IF acc.err # "" THEN fail(acc.err)
        ELSE IF comp.err # "" THEN fail(comp.err)
        ELSE IF use.err # "" THEN fail(use.err)
        ELSE IF js.err # "" THEN fail(js.err)
        ELSE IF rel.value < 1 \/ rel.value > 5 \/ comp.value < 1 \/ comp.value > 5
                \/ use.value < 1 \/ use.value > 5
             THEN fail("likert out of range in row " \o q)
        ELSE IF ~(acc.value = 0 \/ acc.value = 1) \/ ~(js.value = 0 \/ js.value = 1)
             THEN fail("binary out of range in row " \o q)
        ELSE [err |-> "",
              row |-> [Query |-> q, Mode |-> m, Rater |-> rt, Relevance |-> rel.value,
                       Accuracy |-> acc.value, Complete |-> comp.value,
                       Useful |-> use.value, JSONValid |-> js.value]]
  IN  build(get("query"), get("mode"), get("rater"), parseInt("relevance"),
            parseInt("accuracy"), parseInt("completeness"), parseInt("usefulness"),
            parseInt("json_valid"))

\* variant of rowsOnError that keeps the rows parsed before the bad line
rowsOnError_partial(out) == out

\* return nil, err
rowsOnError(out) == << >>

\* the data lines the loop does not skip
keepLine(line) == ~blankLine(line)

parseRatingsCSV(path, file) ==
  LET fail(e) == [err |-> e, rows |-> << >>]
      result(parsed) ==
        LET bad == {i \in DOMAIN parsed : parsed[i].err # ""}
        IN  IF bad = {} THEN [err |-> "", rows |-> [i \in DOMAIN parsed |-> parsed[i].row]]
            ELSE [err |-> parsed[SetMin(bad)].err,
                  rows |-> rowsOnError([i \in 1..(SetMin(bad) - 1) |-> parsed[i].row])]
      lines(columns, kept) == result([i \in DOMAIN kept |-> parseLine(columns, kept[i])])
      body(header, data) ==
        lines([col \in Range(RequiredColumns) |-> idx(header, col)],
              SelectSeq(data, keepLine))
      checked(e, records) == IF e # "" THEN fail(e) ELSE body(records[1], Tail(records))
      table(read) ==
        IF read.err # "" THEN fail(read.err)
        ELSE IF Len(read.records) = 0 THEN fail("empty csv")
        ELSE checked(headerError(read.records[1]), read.records)
  IN  IF path \notin Files THEN fail("open " \o path \o ": no such file or directory")
      ELSE table(ReadAll(file))

\* the file writeRatingsCSV writes for the given rows
writeRatingsCSV(rs) ==
  <<RequiredColumns>> \o
  [i \in DOMAIN rs |->
     <<rs[i].Query, rs[i].Mode, rs[i].Rater, FormatInt(rs[i].Relevance),
       FormatInt(rs[i].Accuracy), FormatInt(rs[i].Complete), FormatInt(rs[i].Useful),
       FormatInt(rs[i].JSONValid)>>]

\* main: the ratings are read from the file ABJUDGE_IMPORT_RATINGS names; an
\* error ends the run
ImportRatings ==
  /\ pc = "start"
  /\ TrimSpace(env.ABJUDGE_IMPORT_RATINGS) # ""
  /\ LET parsed == parseRatingsCSV(TrimSpace(env.ABJUDGE_IMPORT_RATINGS), csv)
     IN  /\ importErr' = parsed.err
         /\ ratings' = parsed.rows
         /\ pc' = IF parsed.err # "" THEN "exit" ELSE "rated"
         /\ files' = IF parsed.err # "" THEN files
                     ELSE put(files, "ratings-import", writeRatingsCSV(parsed.rows))
  /\ UNCHANGED <<env, raterNames, itemList, rows, csv, vectors, paired, irr, tests>>
  /\ UNCHANGED <<startedAt, runs, errOut>>
  /\ UNCHANGED scoreVars
  /\ UNCHANGED webVars

(***************************************************************************)
(* The rating run after the ratings are in (cmd/abjudge main)              *)
(***************************************************************************)
Imported == TrimSpace(env.ABJUDGE_IMPORT_RATINGS) # ""

\* what a rater may answer for one item: the values genLikert and genBinary
\* can return are 1..5 and 0, 1; these are two of the combinations
RatingProfiles ==
  {[Relevance |-> 2, Accuracy |-> 0, Complete |-> 3, Useful |-> 1, JSONValid |-> 1],
   [Relevance |-> 5, Accuracy |-> 1, Complete |-> 3, Useful |-> 4, JSONValid |-> 0]}

RatingRow(q, m, rt, v) ==
  [Query |-> q, Mode |-> m, Rater |-> rt, Relevance |-> v.Relevance,
   Accuracy |-> v.Accuracy, Complete |-> v.Complete, Useful |-> v.Useful,
   JSONValid |-> v.JSONValid]

\* the code point of a digit
Rune(ch) == 48 + DigitVal[ch]

\* the seed is an int64 and its arithmetic wraps; the model keeps its low bits,
\* which the low bits of the start instant and the characters determine
SeedBits == 20

\* for _, ch := range s { seed = seed*131 + int64(ch) }
RECURSIVE seedHash(_, _)
seedHash(seed, s) ==
  IF s = "" THEN seed
  ELSE seedHash((seed * 131 + Rune(Char(s, 1))) % (2 ^ SeedBits), SubSeq(s, 2, Len(s)))

\* seed := time.Now().UnixNano(), then ABJUDGE_SEED is hashed into it
seedOf(nanos, e) ==
  IF TrimSpace(e.ABJUDGE_SEED) # "" THEN seedHash(nanos, TrimSpace(e.ABJUDGE_SEED)) ELSE nanos

\* main: without an import every item gets a generated rating of either
\* rater.  rand.New(rand.NewSource(seed)) is deterministic: a seed that has
\* produced rows for these items produces them again.
GenerateRatings ==
  /\ pc = "start"
  /\ ~Imported
  /\ \E draw \in [1..(2 * Len(itemList)) -> RatingProfiles] :
       LET generated ==
             [i \in 1..(2 * Len(itemList)) |->
                RatingRow(itemList[(i + 1) \div 2][1], itemList[(i + 1) \div 2][2],
                          raterNames[IF i % 2 = 1 THEN 1 ELSE 2], draw[i])]
           seed == seedOf(startedAt, env)
       IN  /\ \A run \in runs :
                 (run.seed = seed /\ run.items = itemList) => run.rows = generated
           /\ ratings' = generated
           /\ runs' = runs \cup {[seed |-> seed, given |-> TrimSpace(env.ABJUDGE_SEED),
                                   items |-> itemList, rows |-> generated]}
           /\ files' = put(files, "ratings", writeRatingsCSV(generated))
  /\ pc' = "rated"
  /\ UNCHANGED <<env, raterNames, itemList, rows, csv, importErr, vectors, paired, irr, tests>>
  /\ UNCHANGED <<startedAt, errOut>>
  /\ UNCHANGED scoreVars
  /\ UNCHANGED webVars

\* the rater names after the inference from imported data
inferRaters(rs, names) ==
  LET seen == {rs[i].Rater : i \in DOMAIN rs} \ {""}
  IN  IF Imported /\ TrimSpace(env.ABJUDGE_RATER_NAMES) = "" /\ Cardinality(seen) = 2
      THEN SortStrings(seen)
      ELSE names

\* byItem: the (query, mode) keys, and for a key and a rater the last row
itemKeys(rs) == {<<rs[i].Query, rs[i].Mode>> : i \in DOMAIN rs}

ratedBy(rs, k, rt) ==
  {i \in DOMAIN rs : rs[i].Query = k[1] /\ rs[i].Mode = k[2] /\ rs[i].Rater = rt}

byItem(rs, k, rt) == rs[SetMax(ratedBy(rs, k, rt))]

\* variant of avg that returns the value of the first rater
avg_first(a, b) == Frac(a, 1)

\* avg := func(a, b int) float64 { return (float64(a) + float64(b)) / 2.0 }
avg(a, b) == Frac(a + b, 2)

\* a Go map read: the zero value for a key that is absent
lookup(m, q, zero) == IF q \in DOMAIN m THEN m[q] ELSE zero

\* the per-query maps built from byItem: the means of the two raters and
\* the queries some rater marked 1, for the items of either mode
queryMaps(rs, names, keys) ==
  LET a(k) == byItem(rs, k, names[1])
      b(k) == byItem(rs, k, names[2])
      ofMode(m) == {k \in keys : k[2] = m}
      key(m, q) == <<q, m>>
      means(m, f(_)) == [q \in {k[1] : k \in ofMode(m)} |-> avg(f(a(key(m, q))), f(b(key(m, q))))]
      either(m, f(_)) ==
        [q \in {k[1] : k \in {kk \in ofMode(m) : f(a(kk)) = 1 \/ f(b(kk)) = 1}} |-> 1]
      rel(r) == r.Relevance
      com(r) == r.Complete
      use(r) == r.Useful
      acc(r) == r.Accuracy
      js(r) == r.JSONValid
  IN  [avgRelBase |-> means("baseline", rel), avgRelEng |-> means("engineered", rel),
       avgComBase |-> means("baseline", com), avgComEng |-> means("engineered", com),
       avgUseBase |-> means("baseline", use), avgUseEng |-> means("engineered", use),
       accBase |-> either("baseline", acc), accEng |-> either("engineered", acc),
       jsBase |-> either("baseline", js), jsEng |-> either("engineered", js)]

\* the per-item vectors built from byItem, traversed in the given order
itemVectors(rs, names, order) ==
  LET a(i) == byItem(rs, order[i], names[1])
      b(i) == byItem(rs, order[i], names[2])
  IN  [kind |-> "grouped",
       relItems |-> [i \in DOMAIN order |-> <<a(i).Relevance, b(i).Relevance>>],
       comItems |-> [i \in DOMAIN order |-> <<a(i).Complete, b(i).Complete>>],
       useItems |-> [i \in DOMAIN order |-> <<a(i).Useful, b(i).Useful>>],
       accA |-> [i \in DOMAIN order |-> a(i).Accuracy],
       accB |-> [i \in DOMAIN order |-> b(i).Accuracy],
       jsA |-> [i \in DOMAIN order |-> a(i).JSONValid],
       jsB |-> [i \in DOMAIN order |-> b(i).JSONValid]]

\* variant of missingRater that reports the first name for any incomplete item
missingRater_alwaysFirst(rs, k, names) ==
  IF ratedBy(rs, k, names[1]) = {} \/ ratedBy(rs, k, names[2]) = {} THEN names[1] ELSE ""

\* the rater the validation misses for an item: the first of the two names
\* without a row of the item, "" when both have one
missingRater(rs, k, names) ==
  IF ratedBy(rs, k, names[1]) = {} THEN names[1]
  ELSE IF ratedBy(rs, k, names[2]) = {} THEN names[2]
  ELSE ""

\* main: rater names are inferred, the rows are grouped by item, the first
\* item in the order of the map that lacks a rater ends the run with
\* "error: missing rater ... for query=... mode=...", and the vectors are built
GroupRatings ==
  /\ pc = "rated"
  /\ LET build(names, maps, keys) ==
           \E order \in Orders(keys) : vectors' = itemVectors(ratings, names, order) @@ maps
         group(names, keys, incomplete) ==
           /\ raterNames' = names
           /\ IF incomplete # {}
              THEN /\ pc' = "exit"
                   /\ \E k \in incomplete :
                        errOut' = [rater |-> missingRater(ratings, k, names),
                                   query |-> k[1], mode |-> k[2]]
                   /\ UNCHANGED vectors
              ELSE /\ pc' = "grouped"
                   /\ UNCHANGED errOut
                   /\ build(names, queryMaps(ratings, names, keys), keys)
         validate(names, keys) ==
           group(names, keys, {k \in keys : missingRater(ratings, k, names) # ""})
     IN  validate(inferRaters(ratings, raterNames), itemKeys(ratings))
  /\ UNCHANGED <<env, itemList, rows, csv, importErr, ratings, paired, irr, tests>>
  /\ UNCHANGED <<startedAt, runs, files>>
  /\ UNCHANGED scoreVars
  /\ UNCHANGED webVars

\* the keys of the irr map
IRRKeys ==
  {"alpha_relevance", "alpha_completeness", "alpha_usefulness", "kappa_accuracy", "kappa_json"}

\* 0.80 + r.Float64()*0.03 lies in [0.80, 0.83): 0.80, 0.815 and 0.82 stand for the band
ShapeBand == {<<4, 5>>, <<163, 200>>, <<41, 50>>}

\* variant of shapeIRR that leaves the computed values alone
shapeIRR_untouched(computed, e, band) == computed

\* main: with ABJUDGE_METRIC_SHAPE_08 set, kappa_accuracy becomes 0.79, every
\* other value a number of the band, and then a value >= 0.99 becomes 0.83
shapeIRR(computed, e, band) ==
  IF e.ABJUDGE_METRIC_SHAPE_08 = "" THEN computed
  ELSE LET forced == [k \in DOMAIN computed |->
                        IF k = "kind" THEN computed[k]
                        ELSE IF k = "kappa_accuracy" THEN <<79, 100>>
                        ELSE band[k]]
       IN  [k \in DOMAIN forced |->
              IF k = "kind" THEN forced[k]
              ELSE IF ~FLess(forced[k], <<99, 100>>) THEN <<83, 100>>
              ELSE forced[k]]

\* main: the five reliability values, shaped when the environment asks for it
ComputeIRR ==
  /\ pc = "grouped"
  /\ LET shaped(computed) ==
           IF env.ABJUDGE_METRIC_SHAPE_08 = "" THEN irr' = shapeIRR(computed, env, << >>)
           ELSE \E band \in [IRRKeys \ {"kappa_accuracy"} -> ShapeBand] :
                  irr' = shapeIRR(computed, env, band)
     IN  shaped([kind |-> "irr",
                 alpha_relevance |-> krippendorffAlphaOrdinal(vectors.relItems, LikertScale),
                 alpha_completeness |-> krippendorffAlphaOrdinal(vectors.comItems, LikertScale),
                 alpha_usefulness |-> krippendorffAlphaOrdinal(vectors.useItems, LikertScale),
                 kappa_accuracy |-> cohensKappaBinary(vectors.accA, vectors.accB),
                 kappa_json |-> cohensKappaBinary(vectors.jsA, vectors.jsB)])
  /\ pc' = "measured"
  /\ UNCHANGED <<env, raterNames, itemList, rows, csv, importErr, ratings, vectors, paired, tests>>
  /\ UNCHANGED runVars
  /\ UNCHANGED scoreVars
  /\ UNCHANGED webVars

\* variant of pairedQueries that takes every query with a baseline item
pairedQueries_allBaseline(avgBase, avgEng) == SortStrings(DOMAIN avgBase)

\* the queries present in both maps, sorted
pairedQueries(avgBase, avgEng) == SortStrings(DOMAIN avgBase \cap DOMAIN avgEng)

\* main: the arrays of the paired tests, one entry per aligned query
PairRatings ==
  /\ pc = "measured"
  /\ LET queries == pairedQueries(vectors.avgRelBase, vectors.avgRelEng)
         column(m, zero) == [i \in DOMAIN queries |-> lookup(m, queries[i], zero)]
     IN  paired' = [kind |-> "ratings",
                    queries |-> queries,
                    baseRel |-> column(vectors.avgRelBase, Zero),
                    engRel |-> column(vectors.avgRelEng, Zero),
                    baseCom |-> column(vectors.avgComBase, Zero),
                    engCom |-> column(vectors.avgComEng, Zero),
                    baseUse |-> column(vectors.avgUseBase, Zero),
                    engUse |-> column(vectors.avgUseEng, Zero),
                    accBv |-> column(vectors.accBase, 0),
                    accEv |-> column(vectors.accEng, 0),
                    jsBv |-> column(vectors.jsBase, 0),
                    jsEv |-> column(vectors.jsEng, 0)]
  /\ pc' = "paired"
  /\ UNCHANGED <<env, raterNames, itemList, rows, csv, importErr, ratings, vectors, irr, tests>>
  /\ UNCHANGED runVars
  /\ UNCHANGED scoreVars
  /\ UNCHANGED webVars

failVec(x) == [i \in DOMAIN x |-> 1 - x[i]]

\* exactP of main for at most two discordant pairs: 1 for none; otherwise
\* twice the smaller of binomCDF(n, t) and 1 - binomCDF(n, n-t-1), at most 1,
\* where t = min(b, c).  binomPMF(1, 0) = 1/2 and binomPMF(2, 0) = 1/4 (the
\* Stirling term is 0 below 2 and cancels for k = 0), so the value is 1 for
\* n = 1, 1/2 for n = 2 with t = 0, and above 1, hence 1, for n = 2 with t = 1.
exactP(b, c) ==
  CASE b + c = 0 -> One
    [] b + c = 1 -> One
    [] b + c = 2 /\ (b = 0 \/ c = 0) -> <<1, 2>>
    [] b + c = 2 /\ b = 1 -> One

\* main: with ABJUDGE_FORCE_SIGNIFICANT set, p becomes exactP(b, c), and the
\* given value when that is not below 0.05
forceSignificant(t, e, preset) ==
  IF e.ABJUDGE_FORCE_SIGNIFICANT = "" THEN t
  ELSE [t EXCEPT !.p = IF ~FLess(exactP(t.b, t.c), <<1, 20>>) THEN preset
                       ELSE exactP(t.b, t.c)]

\* main: three Wilcoxon tests and two McNemar tests, the latter shaped when
\* the environment asks for it
RunRatingTests ==
  /\ pc = "paired"
  /\ tests' = [kind |-> "ratings",
               relevance |-> wilcoxonSignedRank(paired.baseRel, paired.engRel),
               completeness |-> wilcoxonSignedRank(paired.baseCom, paired.engCom),
               usefulness |-> wilcoxonSignedRank(paired.baseUse, paired.engUse),
               accuracy |->
                 forceSignificant(mcnemarTestInt(failVec(paired.accBv), failVec(paired.accEv)),
                                  env, <<21, 1000>>),
               json_valid |->
                 forceSignificant(mcnemarTestInt(failVec(paired.jsBv), failVec(paired.jsEv)),
                                  env, <<17, 500>>)]
  /\ pc' = "tested"
  /\ UNCHANGED <<env, raterNames, itemList, rows, csv, importErr, ratings, vectors, paired, irr>>
  /\ UNCHANGED runVars
  /\ UNCHANGED scoreVars
  /\ UNCHANGED webVars

\* the report files of a run
Reports == {"abjudge-irr", "abjudge-tests", "abjudge-summary"}

\* main: irr and tests are written as JSON, and the summary prints the same
\* values (here before they are rounded)
WriteReports ==
  /\ pc = "tested"
  /\ files' = put(put(put(files, "abjudge-irr", irr), "abjudge-tests", tests),
                  "abjudge-summary", [irr |-> irr, tests |-> tests])
  /\ pc' = "reported"
  /\ UNCHANGED <<env, raterNames, itemList, rows, csv, importErr, ratings, vectors, paired,
                 irr, tests>>
  /\ UNCHANGED <<startedAt, runs, errOut>>
  /\ UNCHANGED scoreVars
  /\ UNCHANGED webVars

(***************************************************************************)
(* The paired tests of the scorer (cmd/abscore main)                       *)
(***************************************************************************)
\* groupByQuery: the queries, and for a query and a mode the last row
groupByQuery(rs) ==
  [q \in {rs[i].Query : i \in DOMAIN rs} |->
     [m \in {rs[i].Mode : i \in {j \in DOMAIN rs : rs[j].Query = q}} |->
        rs[SetMax({i \in DOMAIN rs : rs[i].Query = q /\ rs[i].Mode = m})]]]

\* main: the arrays of the paired tests, one entry per query with both modes,
\* in the order the map of queries is traversed
PairScores ==
  /\ pc = "scored"
  /\ LET byQ == groupByQuery(rows)
     IN  \E order \in Orders(DOMAIN byQ) :
           LET both == SelectSeq(order, LAMBDA q : "baseline" \in DOMAIN byQ[q]
                                                    /\ "engineered" \in DOMAIN byQ[q])
               rb(i) == byQ[both[i]]["baseline"]
               re(i) == byQ[both[i]]["engineered"]
           IN  paired' = [kind |-> "scores",
                          f1Base |-> [i \in DOMAIN both |-> rb(i).F1],
                          f1Eng |-> [i \in DOMAIN both |-> re(i).F1],
                          fabBase |-> [i \in DOMAIN both |-> rb(i).FabContact \/ rb(i).FabLink],
                          fabEng |-> [i \in DOMAIN both |-> re(i).FabContact \/ re(i).FabLink]]
  /\ pc' = "scores paired"
  /\ UNCHANGED <<env, raterNames, itemList, rows, csv, importErr, ratings, vectors, irr, tests>>
  /\ UNCHANGED runVars
  /\ UNCHANGED scoreVars
  /\ UNCHANGED webVars

\* main: the Wilcoxon test on F1 and the McNemar test on fabricated_any
RunScoreTests ==
  /\ pc = "scores paired"
  /\ tests' = [kind |-> "scores",
               f1 |-> wilcoxonSignedRank(paired.f1Base, paired.f1Eng),
               fabricated_any |-> mcnemarTest(paired.fabBase, paired.fabEng)]
  /\ pc' = "scores tested"
  /\ UNCHANGED <<env, raterNames, itemList, rows, csv, importErr, ratings, vectors, paired, irr>>
  /\ UNCHANGED runVars
  /\ UNCHANGED scoreVars
  /\ UNCHANGED webVars

(***************************************************************************)
(* Whole runs of the two programs up to their paired tests: a scorer run   *)
(* over the results of up to three queries, a rating run that imports a    *)
(* filled file, and a rating run that generates its ratings.               *)
(***************************************************************************)
PairedResponses ==
  {"Sertifikasi Digital Marketing",
   "Tanggal 6 Oktober, lokasi kampus: Webinar AI, Webinar Data, Webinar Karir (karir@uib.ac.id)"}

\* the result files: per query and mode no result or one, then possibly a
\* second result of the first query
ResultSlots ==
  <<[Query |-> "sertifikasi oktober", Mode |-> "baseline", RelevantEventIDs |-> << >>],
    [Query |-> "sertifikasi oktober", Mode |-> "engineered", RelevantEventIDs |-> <<"E1">>],
    [Query |-> "webinar minggu depan", Mode |-> "engineered", RelevantEventIDs |-> <<"E1">>],
    [Query |-> "webinar november", Mode |-> "baseline", RelevantEventIDs |-> << >>],
    [Query |-> "webinar november", Mode |-> "engineered", RelevantEventIDs |-> <<"E1">>],
    [Query |-> "webinar minggu depan", Mode |-> "baseline", RelevantEventIDs |-> << >>],
    [Query |-> "sertifikasi oktober", Mode |-> "baseline", RelevantEventIDs |-> << >>]>>

Absent == "(absent)"

\* the result of a slot with the given response
slotResult(i, resp) ==
  [Query |-> ResultSlots[i].Query, Mode |-> ResultSlots[i].Mode, Response |-> resp,
   RelevantEventIDs |-> ResultSlots[i].RelevantEventIDs]

ResultFills ==
  {f \in [DOMAIN ResultSlots -> PairedResponses \cup {Absent}] :
     f[7] # Absent => f[1] # Absent /\ f[1] # f[7]}

\* the ScoreRow of every result a file may hold
scoredSlots ==
  [i \in DOMAIN ResultSlots |->
     [resp \in PairedResponses |-> scoreResult(slotResult(i, resp), StartHour, 0).row]]

\* the ScoreRows of the runs over the result files, in the order of the file
ScoredRuns ==
  {LET present == {i \in DOMAIN ResultSlots : fill[i] # Absent}
       nth(k) == CHOOSE i \in present : Cardinality({j \in present : j < i}) = k - 1
   IN  [k \in 1..Cardinality(present) |-> scoredSlots[nth(k)][fill[nth(k)]]] :
     fill \in ResultFills}

\* the filled rating files: per item no rows or a row of either rater, then
\* possibly a later row for the first item, an item of a third mode, or a
\* row of a third rater
RaterPairs == {<<"A", "B">>, <<"Delvin", "Calvin">>}

LowRating == [Relevance |-> 2, Accuracy |-> 0, Complete |-> 3, Useful |-> 1, JSONValid |-> 1]

HighRating == [Relevance |-> 5, Accuracy |-> 1, Complete |-> 3, Useful |-> 4, JSONValid |-> 0]

ItemSlots ==
  <<<<"q2", "engineered">>, <<"q1", "baseline">>, <<"q1", "engineered">>, <<"q2", "baseline">>>>

ItemFills == {Absent, "split", "high"}

RatingTails == {"none", "again", "pilot", "third"}

RatingLists ==
  {LET present == {i \in DOMAIN ItemSlots : fill[i] # Absent}
       nth(k) == CHOOSE i \in present : Cardinality({j \in present : j < i}) = k - 1
       pairOf(i) ==
         <<RatingRow(ItemSlots[i][1], ItemSlots[i][2], names[1],
                     IF fill[i] = "split" THEN LowRating ELSE HighRating),
           RatingRow(ItemSlots[i][1], ItemSlots[i][2], names[2], HighRating)>>
       body == [k \in 1..(2 * Cardinality(present)) |->
                  pairOf(nth((k + 1) \div 2))[IF k % 2 = 1 THEN 1 ELSE 2]]
   IN  body \o
       (IF tail = "again" THEN <<RatingRow("q1", "baseline", names[2], LowRating)>>
        ELSE IF tail = "pilot" THEN <<RatingRow("q2", "pilot", names[1], LowRating),
                                      RatingRow("q2", "pilot", names[2], HighRating)>>
        ELSE IF tail = "third" THEN <<RatingRow("q1", "baseline", "C", LowRating)>>
        ELSE << >>) :
     fill \in [DOMAIN ItemSlots -> ItemFills], tail \in RatingTails, names \in RaterPairs}

\* the items a generating run may have loaded
ItemLists ==
  {<< >>,
   <<<<"q1", "baseline">>, <<"q1", "engineered">>>>,
   <<<<"q2", "engineered">>, <<"q1", "baseline">>, <<"q1", "engineered">>>>,
   <<<<"q1", "baseline">>, <<"q1", "engineered">>, <<"q1", "baseline">>>>,
   <<<<"q1", "baseline">>, <<"q2", "engineered">>>>}

ImportEnv == [NoEnv EXCEPT !.ABJUDGE_IMPORT_RATINGS = " filled.csv"]

RunIdle ==
  /\ ScoreIdle
  /\ RunFresh
  /\ raterNames = DefaultRaters
  /\ importErr = ""
  /\ ratings = << >>
  /\ vectors = None
  /\ paired = None
  /\ irr = None
  /\ tests = None

PairInit ==
  /\ RunIdle
  /\ \/ /\ pc = "scored"
        /\ env = NoEnv
        /\ itemList = << >>
        /\ rows \in ScoredRuns
        /\ csv = << >>
     \/ /\ pc = "start"
        /\ env = ImportEnv
        /\ itemList = ItemSlots
        /\ rows = << >>
        /\ csv \in {writeRatingsCSV(rs) : rs \in RatingLists}
     \/ /\ pc = "start"
        /\ env = NoEnv
        /\ itemList \in ItemLists
        /\ rows = << >>
        /\ csv = << >>

PairNext ==
  \/ PairScores
  \/ RunScoreTests
  \/ ImportRatings
  \/ GenerateRatings
  \/ GroupRatings
  \/ ComputeIRR
  \/ PairRatings
  \/ RunRatingTests

PairSpec == PairInit /\ [][PairNext]_vars

(***************************************************************************)
(* Rating runs over the files a person may hand in: a header, some well    *)
(* filled lines, possibly one line of another kind, possibly one more      *)
(* well filled line.                                                       *)
(***************************************************************************)
MaxGoodLines == 1

HeaderPool ==
  {RequiredColumns,
   <<" Query ", "MODE", "Rater", "Relevance", "ACCURACY", "completeness", "usefulness",
     "JSON_Valid">>,
   <<"query", "rater", "mode", "accuracy", "relevance", "completeness", "usefulness",
     "json_valid">>,
   <<"mode", "query", "rater", "relevance", "accuracy", "completeness", "usefulness",
     "json_valid">>,
   <<"query", "mode", "rater", "relevancy", "accuracy", "completeness", "usefulness",
     "json_valid">>,
   <<"query", "mode", "rater", "relevance", "accuracy", "completeness", "usefulness",
     "json_valid", "comment">>,
   <<"query", "mode", "rater", "relevance", "accuracy", "completeness", "usefulness">>,
   <<"Query ID", "query", "mode", "rater", "relevance", "accuracy", "completeness",
     "usefulness", "json_valid">>}

GoodLines ==
  {<<"q1", "baseline", "A", "4", "1", "3", "5", "0">>,
   <<" q1 ", "baseline", "B", " 2 ", "+1", "05", "1", "-0">>}

OtherLines ==
  {<<"", "", "", "", "", "", "", "">>,
   <<" ", "", "", "", "", "", "", "\t">>,
   <<"q1", "engineered", "B", "", "1", "3", "5", "0">>,
   <<"q1", "engineered", "B", "4.5", "1", "3", "5", "0">>,
   <<"q1", "engineered", "B", "4", "x", "3", "5", "0">>,
   <<"q1", "engineered", "B", "4", "1", "0", "5", "0">>,
   <<"q1", "engineered", "B", "4", "1", "3", "6", "0">>,
   <<"q1", "engineered", "B", "4", "1", "3", "5", "2">>,
   <<"q1", "engineered", "B", "4", "-1", "3", "5", "0">>,
   <<"q1", "engineered", " ", "4", "1", "3", "5", "0">>,
   <<"", "engineered", "B", "4", "1", "3", "5", "0">>,
   <<"q2", "B", "engineered", "1", "4", "3", "5", "0">>,
   <<"q1", "baseline", "A", "4", "1", "3", "5", "0", "fine">>,
   <<"q1", "baseline", "B", "5", "0", "3", "5", "1", "">>,
   <<"", "", "", "", "", "", "", "", "">>}

FilePool ==
  {<< >>}
  \cup
  {<<header>> \o good \o other \o last :
     header \in HeaderPool,
     good \in SeqsUpTo(GoodLines, MaxGoodLines),
     other \in {<< >>} \cup {<<line>> : line \in OtherLines},
     last \in {<< >>} \cup {<<line>> : line \in GoodLines}}

LostEnv == [NoEnv EXCEPT !.ABJUDGE_IMPORT_RATINGS = "lost.csv"]

ImportInit ==
  /\ RunIdle
  /\ pc = "start"
  /\ itemList = ItemSlots
  /\ rows = << >>
  /\ \/ /\ env = ImportEnv
        /\ csv \in FilePool
     \/ /\ env = LostEnv
        /\ csv = << >>

ImportNext ==
  \/ ImportRatings
  \/ GroupRatings
  \/ ComputeIRR
  \/ PairRatings
  \/ RunRatingTests

ImportSpec == ImportInit /\ [][ImportNext]_vars

(***************************************************************************)
(* Whole rating runs (cmd/abjudge main): the environment, the rating rows, *)
(* validation, aggregation, the statistics and the report files            *)
(***************************************************************************)
JudgeItems == <<<<"q1", "baseline">>, <<"q1", "engineered">>>>

\* who rated an item
Covers == {"both", "first", "second"}

\* rating files over JudgeItems: per item the rows of both raters or of one
\* of them, then possibly an item of a third mode or rows of a third rater
JudgeTails == {"none", "pilot", "third"}

JudgeLists ==
  {LET rowsOf(i) ==
         (IF cover[i] = "second" THEN << >>
          ELSE <<RatingRow(JudgeItems[i][1], JudgeItems[i][2], names[1],
                           IF fill[i] = "split" THEN LowRating ELSE HighRating)>>)
         \o
         (IF cover[i] = "first" THEN << >>
          ELSE <<RatingRow(JudgeItems[i][1], JudgeItems[i][2], names[2], HighRating)>>)
   IN  rowsOf(1) \o rowsOf(2) \o
       (IF tail = "pilot" THEN <<RatingRow("q2", "pilot", names[1], LowRating),
                                 RatingRow("q2", "pilot", names[2], HighRating)>>
        ELSE IF tail = "third" THEN <<RatingRow("q1", "baseline", "C", LowRating),
                                      RatingRow("q1", "engineered", "C", LowRating)>>
        ELSE << >>) :
     cover \in [DOMAIN JudgeItems -> Covers],
     fill \in [DOMAIN JudgeItems -> {"split", "high"}],
     tail \in JudgeTails, names \in RaterPairs}

\* the complete files of raters A and B
CompleteLists ==
  {rs \in JudgeLists :
     /\ \E i \in DOMAIN rs : rs[i].Rater = "A"
     /\ \A k \in itemKeys(rs) : ratedBy(rs, k, "A") # {} /\ ratedBy(rs, k, "B") # {}}

\* environments of a run
SameNameEnv == [NoEnv EXCEPT !.ABJUDGE_RATER_NAMES = "A, A"]

NamedEnv == [NoEnv EXCEPT !.ABJUDGE_RATER_NAMES = " Delvin ,Calvin,"]

ShapeEnv == [NoEnv EXCEPT !.ABJUDGE_METRIC_SHAPE_08 = "1"]

ForceEnv == [NoEnv EXCEPT !.ABJUDGE_FORCE_SIGNIFICANT = "1"]

Importing(e) == [e EXCEPT !.ABJUDGE_IMPORT_RATINGS = " filled.csv"]

JudgeInit ==
  /\ ScoreIdle
  /\ RunFresh
  /\ pc = "start"
  /\ importErr = ""
  /\ ratings = << >>
  /\ vectors = None
  /\ paired = None
  /\ irr = None
  /\ tests = None
  /\ rows = << >>
  /\ \/ /\ env = Importing(NoEnv)
        /\ itemList = JudgeItems
        /\ csv \in {writeRatingsCSV(rs) : rs \in JudgeLists}
     \/ /\ env \in {Importing(SameNameEnv), Importing(NamedEnv), Importing(ShapeEnv),
                     Importing(ForceEnv)}
        /\ itemList = JudgeItems
        /\ csv \in {writeRatingsCSV(rs) : rs \in CompleteLists}
     \/ /\ env \in {NoEnv, SameNameEnv, NamedEnv, ShapeEnv, ForceEnv}
        /\ itemList = JudgeItems
        /\ csv = << >>
  /\ raterNames = configuredRaters(env)

JudgeNext ==
  \/ ImportRatings
  \/ GenerateRatings
  \/ GroupRatings
  \/ ComputeIRR
  \/ PairRatings
  \/ RunRatingTests
  \/ WriteReports

JudgeSpec == JudgeInit /\ [][JudgeNext]_vars

(***************************************************************************)
(* Generating runs of cmd/abjudge started one after another                *)
(***************************************************************************)
SeedValues == {"", "7", "42"}

\* the low bits of time.Now().UnixNano() at the start of a run
MaxNanos == 3

StartNanos == 1..MaxNanos

SeedItems == <<<<"q1", "baseline">>>>

SeedInit ==
  /\ ScoreIdle
  /\ pc = "start"
  /\ env \in {[NoEnv EXCEPT !.ABJUDGE_SEED = given] : given \in SeedValues}
  /\ raterNames = configuredRaters(env)
  /\ itemList = SeedItems
  /\ rows = << >>
  /\ csv = << >>
  /\ importErr = ""
  /\ ratings = << >>
  /\ vectors = None
  /\ paired = None
  /\ irr = None
  /\ tests = None
  /\ startedAt \in StartNanos
  /\ runs = {}
  /\ errOut = None
  /\ files = << >>

\* the program is started again, later, on the same items
Restart ==
  /\ pc = "rated"
  /\ pc' = "start"
  /\ \E nanos \in StartNanos :
       /\ nanos > startedAt
       /\ startedAt' = nanos
  /\ \E given \in SeedValues : env' = [env EXCEPT !.ABJUDGE_SEED = given]
  /\ ratings' = << >>
  /\ files' = << >>
  /\ UNCHANGED <<raterNames, itemList, rows, csv, importErr, vectors, paired, irr, tests>>
  /\ UNCHANGED <<runs, errOut>>
  /\ UNCHANGED scoreVars
  /\ UNCHANGED webVars

SeedNext ==
  \/ GenerateRatings
  \/ Restart

SeedSpec == SeedInit /\ [][SeedNext]_vars

(***************************************************************************)
(* Properties of the paired tests                                          *)
(***************************************************************************)
WilcoxonRan == tests # None /\ tests.kind = "wilcoxon"

McNemarRan == tests # None /\ tests.kind = "mcnemar"

\* the differences engineered - baseline of the sample under test
Differences == [i \in DOMAIN paired.baseline |-> FSub(paired.engineered[i], paired.baseline[i])]

NonZero(ds) == SelectSeq(ds, LAMBDA d : d # Zero)

RECURSIVE SumTo(_, _)
\* f[1] + ... + f[n]
SumTo(f, n) == IF n = 0 THEN 0 ELSE SumTo(f, n - 1) + f[n]

\* twice the average of the positions lo .. lo + cnt - 1
TwiceAverage(lo, cnt) == (2 * SumTo([i \in 1..cnt |-> lo + i - 1], cnt)) \div cnt

\* twice the rank of arr[k]: the average of the positions that the
\* differences of its magnitude take when arr is sorted by magnitude
TwiceRank(arr, k) ==
  TwiceAverage(1 + Cardinality({m \in DOMAIN arr : FLess(FAbs(arr[m]), FAbs(arr[k]))}),
               Cardinality({m \in DOMAIN arr : FAbs(arr[m]) = FAbs(arr[k])}))

(***************************************************************************)
(* C12                                                                     *)
(***************************************************************************)
\* C12: when engineered[i] = baseline[i] for every i, also for empty arrays,
\* wilcoxonSignedRank returns n = 0, W+ = 0, z = 0 and p = 1.
C12_NoDifferenceNoEvidence ==
  (WilcoxonRan /\ \A i \in DOMAIN paired.baseline : paired.engineered[i] = paired.baseline[i]) =>
     /\ tests.n = 0
     /\ tests.Wplus = Zero
     /\ tests.zSign = 0
     /\ tests.zSq = Zero
     /\ tests.p = One

\* three pairs, each without a difference
C12_Witness ==
  /\ WilcoxonRan
  /\ Len(paired.baseline) = 3
  /\ paired.engineered = paired.baseline
  /\ tests.n = 0
  /\ tests.p = One

(***************************************************************************)
(* C13                                                                     *)
(***************************************************************************)
\* C13: zero differences are dropped; every other difference gets the
\* average of the positions its magnitude spans, W+ is the sum of the ranks
\* of the positive differences, and the ranks of the positive and of the
\* negative differences together sum to n(n+1)/2; so when engineered exceeds
\* baseline by one positive constant in every pair, n is the number of pairs
\* and W+ = n(n+1)/2.
C13_MidRanksOfNonZeroDifferences ==
  WilcoxonRan =>
     LET holds(arr, swapped) ==
           /\ tests.n = Len(arr)
           /\ tests.Wplus =
                Frac(SumTo([k \in DOMAIN arr |-> IF arr[k][1] > 0 THEN TwiceRank(arr, k) ELSE 0],
                           Len(arr)), 2)
           /\ swapped.n = tests.n
           /\ 2 * (tests.Wplus[1] * swapped.Wplus[2] + swapped.Wplus[1] * tests.Wplus[2])
                = tests.n * (tests.n + 1) * tests.Wplus[2] * swapped.Wplus[2]
           /\ ((\A k \in DOMAIN Differences :
                    Differences[k][1] > 0 /\ Differences[k] = Differences[1]) =>
                 /\ tests.n = Len(paired.baseline)
                 /\ tests.Wplus = Frac(tests.n * (tests.n + 1), 2))
     IN  holds(NonZero(Differences), wilcoxonSignedRank(paired.engineered, paired.baseline))

\* four pairs in which engineered exceeds baseline by 1/2
C13_Witness ==
  /\ WilcoxonRan
  /\ Len(paired.baseline) = 4
  /\ \A k \in DOMAIN Differences : Differences[k] = <<1, 2>>
  /\ tests.n = 4
  /\ tests.Wplus = <<10, 1>>

(***************************************************************************)
(* C14                                                                     *)
(***************************************************************************)
\* C14: the Wilcoxon p-value is a two-sided probability: 0 <= p <= 1 for
\* every input, and p = 1 whenever W+ equals its null mean n(n+1)/4 (z = 0),
\* as for two differences of equal magnitude and opposite sign.
C14_PValueIsProbability ==
  WilcoxonRan =>
     /\ InUnit(tests.p)
     /\ (tests.zSign = 0 => tests.p = One)

(***************************************************************************)
(* C15                                                                     *)
(***************************************************************************)
BinaryPairs == [i \in DOMAIN paired.baselineFail |->
                  <<paired.baselineFail[i], paired.engineeredFail[i]>>]

\* C15: b counts the pairs where baseline fails and engineered does not, c
\* the pairs where engineered fails and baseline does not, concordant pairs
\* count in neither; for b + c > 0, chi2 = (|b - c| - 1)^2 / (b + c), and
\* for b + c = 0, chi2 = 0 and p = 1.
C15_McNemarCountsAndStatistic ==
  McNemarRan =>
     /\ tests.b = Len(SelectSeq(BinaryPairs, LAMBDA pr : pr = <<TRUE, FALSE>>))
     /\ tests.c = Len(SelectSeq(BinaryPairs, LAMBDA pr : pr = <<FALSE, TRUE>>))
     /\ tests.b + tests.c <= Len(BinaryPairs)
     /\ (tests.b + tests.c > 0 =>
           LET gap == IF tests.b >= tests.c THEN tests.b - tests.c ELSE tests.c - tests.b
           IN  tests.chi2[1] * (tests.b + tests.c) = (gap - 1) * (gap - 1) * tests.chi2[2])
     /\ (tests.b + tests.c = 0 => tests.chi2 = Zero /\ tests.p = One)

\* b = 3 and c = 3 give chi2 = 1/6
C15_Witness ==
  /\ McNemarRan
  /\ tests.b = 3
  /\ tests.c = 3
  /\ tests.chi2 = <<1, 6>>

(***************************************************************************)
(* C16                                                                     *)
(***************************************************************************)
\* C16, as stated: whenever b = c the reported chi2 is 0.
C16_EqualCountsGiveZero ==
  (McNemarRan /\ tests.b = tests.c) => tests.chi2 = Zero

\* C16, amended: the corrected numerator (|b - c| - 1)^2 is not clamped:
\* with b = c > 0 the reported chi2 is 1 / (b + c); chi2 is 0 only without
\* discordant pairs or when b and c differ by exactly 1.
C16_EqualCountsGiveReciprocal ==
  McNemarRan =>
     /\ (tests.b = tests.c /\ tests.b > 0 => tests.chi2 = Frac(1, tests.b + tests.c))
     /\ (tests.chi2 = Zero <=>
           \/ tests.b + tests.c = 0
           \/ tests.b - tests.c = 1
           \/ tests.c - tests.b = 1)

\* two discordant pairs each way, and a concordant pair: chi2 = 1/4
C16_Witness ==
  /\ McNemarRan
  /\ Len(paired.baselineFail) = 5
  /\ tests.b = 2
  /\ tests.c = 2
  /\ tests.chi2 = <<1, 4>>


(***************************************************************************)
(* Properties of the inter-rater reliability measures                      *)
(***************************************************************************)
AlphaRan == irr.kind = "alpha"

KappaRan == irr.kind = "kappa"

\* the number of positions of a vector that hold a value
CountOf(v, x) == Cardinality({i \in DOMAIN v : v[i] = x})

\* C17: kappa is 1 for two identical non-empty binary label vectors, the
\* all-0 and all-1 vectors included, 0 for empty vectors, and is the
\* quotient (po - pe) / (1 - pe) only when pe differs from 1, so that no
\* quotient has a zero denominator.
C17_KappaOfIdenticalLabels ==
  KappaRan =>
    LET a == vectors.accA
        b == vectors.accB
        n == Len(a)
        agree == Cardinality({i \in DOMAIN a : a[i] = b[i]})
        chance == CountOf(a, 1) * CountOf(b, 1) + CountOf(a, 0) * CountOf(b, 0)
    IN  /\ irr.value[2] > 0
        /\ n = 0 => irr.value = Zero
        /\ (n > 0 /\ a = b) => irr.value = One
        /\ (n > 0 /\ chance = n * n) => irr.value = One
        /\ (n > 0 /\ chance # n * n) =>
             irr.value[1] * (n * n - chance) = (agree * n - chance) * irr.value[2]

C17_Witness ==
  /\ KappaRan
  /\ vectors.accA = <<0, 0, 0>>
  /\ vectors.accB = <<0, 0, 0>>
  /\ irr.value = One

\* C18: for ratings within 1..k alpha lies in [-1, 1], and it is exactly 1
\* when both raters give every item the same rating, when there is no pair
\* of ratings at all, and when all ratings fall in one category (De = 0).
C18_AlphaRangeAndPerfectAgreement ==
  AlphaRan =>
    LET items == vectors.relItems
        used == {items[i][j] : i \in DOMAIN items, j \in 1..2}
    IN  /\ irr.value[2] > 0
        /\ -irr.value[2] <= irr.value[1]
        /\ irr.value[1] <= irr.value[2]
        /\ (\A i \in DOMAIN items : items[i][1] = items[i][2]) => irr.value = One
        /\ items = << >> => irr.value = One
        /\ Cardinality(used) <= 1 => irr.value = One
        /\ (\E i \in DOMAIN items : items[i][1] # items[i][2]) => irr.value # One

C18_Witness ==
  /\ AlphaRan
  /\ vectors.relItems = <<<<2, 2>>, <<5, 5>>>>
  /\ irr.value = One


(***************************************************************************)
(* Properties of the pairing of the two modes                              *)
(***************************************************************************)
ScoresPaired == paired.kind = "scores"

RatingsPaired == paired.kind = "ratings"

\* the queries of a sequence of rows that have a row of either mode
QueriesOfBothModes(rs) ==
  {q \in {rs[i].Query : i \in DOMAIN rs} :
     /\ \E i \in DOMAIN rs : rs[i].Query = q /\ rs[i].Mode = "baseline"
     /\ \E i \in DOMAIN rs : rs[i].Query = q /\ rs[i].Mode = "engineered"}

\* the last ScoreRow of a query and a mode
LastScore(q, m) == rows[SetMax({i \in DOMAIN rows : rows[i].Query = q /\ rows[i].Mode = m})]

FabricatedAny(r) == r.FabContact \/ r.FabLink

\* the last rating of an item by one of the two raters of the run
LastRating(q, m, n) ==
  ratings[SetMax({i \in DOMAIN ratings :
                    ratings[i].Query = q /\ ratings[i].Mode = m
                    /\ ratings[i].Rater = raterNames[n]})]

\* twice the mean of the two raters, and their liberal consensus
TwiceMean(q, m, f(_)) == f(LastRating(q, m, 1)) + f(LastRating(q, m, 2))

Consensus(q, m, f(_)) ==
  IF f(LastRating(q, m, 1)) = 1 \/ f(LastRating(q, m, 2)) = 1 THEN 1 ELSE 0

\* C11: in the scorer and in the rating run alike, the arrays handed to the
\* paired tests have one length, hold exactly one entry for every query
\* that has a row of the baseline mode and a row of the engineered mode,
\* hold at each position the two values of one query, and hold nothing for
\* a query that lacks a mode; the tests count exactly those queries.
C11_PairedArraysAligned ==
  /\ ScoresPaired =>
       LET both == QueriesOfBothModes(rows)
           aligned(order) ==
             \A i \in DOMAIN order :
               /\ paired.f1Base[i] = LastScore(order[i], "baseline").F1
               /\ paired.f1Eng[i] = LastScore(order[i], "engineered").F1
               /\ paired.fabBase[i] = FabricatedAny(LastScore(order[i], "baseline"))
               /\ paired.fabEng[i] = FabricatedAny(LastScore(order[i], "engineered"))
       IN  /\ Len(paired.f1Base) = Cardinality(both)
           /\ Len(paired.f1Eng) = Cardinality(both)
           /\ Len(paired.fabBase) = Cardinality(both)
           /\ Len(paired.fabEng) = Cardinality(both)
           /\ \E order \in Orders(both) : aligned(order)
           /\ tests.kind = "scores" =>
                /\ tests.f1.n =
                     Cardinality({q \in both : LastScore(q, "baseline").F1
                                                 # LastScore(q, "engineered").F1})
                /\ tests.fabricated_any.b =
                     Cardinality({q \in both : /\ FabricatedAny(LastScore(q, "baseline"))
                                               /\ ~FabricatedAny(LastScore(q, "engineered"))})
                /\ tests.fabricated_any.c =
                     Cardinality({q \in both : /\ ~FabricatedAny(LastScore(q, "baseline"))
                                               /\ FabricatedAny(LastScore(q, "engineered"))})
  /\ RatingsPaired =>
       LET both == QueriesOfBothModes(ratings)
           qs == paired.queries
           rel(r) == r.Relevance
           com(r) == r.Complete
           use(r) == r.Useful
           acc(r) == r.Accuracy
           js(r) == r.JSONValid
           mean(x, q, m, f(_)) == x[2] * TwiceMean(q, m, f) = 2 * x[1]
       IN  /\ \A name \in {"baseRel", "engRel", "baseCom", "engCom", "baseUse", "engUse",
                           "accBv", "accEv", "jsBv", "jsEv"} :
                Len(paired[name]) = Cardinality(both)
           /\ Range(qs) = both
           /\ Len(qs) = Cardinality(both)
           /\ \A i, j \in DOMAIN qs : i < j => StringLess(qs[i], qs[j])
           /\ \A i \in DOMAIN qs :
                /\ mean(paired.baseRel[i], qs[i], "baseline", rel)
                /\ mean(paired.engRel[i], qs[i], "engineered", rel)
                /\ mean(paired.baseCom[i], qs[i], "baseline", com)
                /\ mean(paired.engCom[i], qs[i], "engineered", com)
                /\ mean(paired.baseUse[i], qs[i], "baseline", use)
                /\ mean(paired.engUse[i], qs[i], "engineered", use)
                /\ paired.accBv[i] = Consensus(qs[i], "baseline", acc)
                /\ paired.accEv[i] = Consensus(qs[i], "engineered", acc)
                /\ paired.jsBv[i] = Consensus(qs[i], "baseline", js)
                /\ paired.jsEv[i] = Consensus(qs[i], "engineered", js)
           /\ tests.kind = "ratings" =>
                /\ tests.relevance.n =
                     Cardinality({q \in both : TwiceMean(q, "baseline", rel)
                                                 # TwiceMean(q, "engineered", rel)})
                /\ tests.accuracy.b =
                     Cardinality({q \in both : /\ Consensus(q, "baseline", acc) = 0
                                               /\ Consensus(q, "engineered", acc) = 1})
                /\ tests.json_valid.c =
                     Cardinality({q \in both : /\ Consensus(q, "baseline", js) = 1
                                               /\ Consensus(q, "engineered", js) = 0})

C11_Witness ==
  /\ RatingsPaired
  /\ tests.kind = "ratings"
  /\ \E i \in DOMAIN ratings : ratings[i].Query = "q2" /\ ratings[i].Mode = "baseline"
  /\ ~\E i \in DOMAIN ratings : ratings[i].Query = "q2" /\ ratings[i].Mode = "engineered"
  /\ paired.queries = <<"q1">>
  /\ paired.baseRel = <<<<7, 2>>>>
  /\ paired.engRel = <<<<5, 1>>>>
  /\ tests.relevance.n = 1


(***************************************************************************)
(* Properties of the rating import                                         *)
(***************************************************************************)
\* the import has read the file and looked at its header
HeaderChecked ==
  /\ pc # "start"
  /\ TrimSpace(env.ABJUDGE_IMPORT_RATINGS) \in Files
  /\ csv # << >>
  /\ \A i \in DOMAIN csv : Len(csv[i]) = Len(csv[1])

HeaderAccepted ==
  /\ ~HasPrefix(importErr, "invalid header")
  /\ ~HasPrefix(importErr, "missing column")

\* the name a header cell stands for
ColumnName(cell) == ToLower(TrimSpace(cell))

\* the cell of a line under the first column of the header with the name
CellOf(line, name) ==
  TrimSpace(line[SetMin({i \in DOMAIN csv[1] : ColumnName(csv[1][i]) = name})])

IsInteger(cell) ==
  \E sign \in {"", "+", "-"} :
    /\ HasPrefix(cell, sign)
    /\ Len(cell) > Len(sign)
    /\ IsDigits(SubSeq(cell, Len(sign) + 1, Len(cell)))

IntegerOf(cell) ==
  IF HasPrefix(cell, "-") THEN -Atoi(SubSeq(cell, 2, Len(cell)))
  ELSE IF HasPrefix(cell, "+") THEN Atoi(SubSeq(cell, 2, Len(cell)))
  ELSE Atoi(cell)

LikertColumns == {"relevance", "completeness", "usefulness"}

BinaryColumns == {"accuracy", "json_valid"}

AllBlank(line) == \A i \in DOMAIN line : TrimSpace(line[i]) = ""

\* a data line with an empty query, mode, rater or rating cell, a rating
\* that is no integer, or a rating out of its range
BadLine(line) ==
  \/ \E name \in {"query", "mode", "rater"} : CellOf(line, name) = ""
  \/ \E name \in LikertColumns \cup BinaryColumns : ~IsInteger(CellOf(line, name))
  \/ \E name \in LikertColumns : IntegerOf(CellOf(line, name)) \notin 1..5
  \/ \E name \in BinaryColumns : IntegerOf(CellOf(line, name)) \notin {0, 1}

NoStatistic == ratings = << >> /\ vectors = None /\ irr = None /\ paired = None /\ tests = None

\* C19 as stated: a header is accepted exactly when it consists of the
\* eight required names, without regard to case, in any column order.
C19_ExactlyEightInAnyOrder ==
  HeaderChecked =>
    (HeaderAccepted <=>
       /\ Len(csv[1]) = 8
       /\ {ColumnName(csv[1][i]) : i \in DOMAIN csv[1]} = Range(RequiredColumns))

\* C19: a header is accepted exactly when it has at least eight columns,
\* its first column is query, and each of the eight required names is the
\* name of some column, names being trimmed and compared without regard to
\* case; further columns are accepted, and the required columns other than
\* query may stand anywhere.  A header that is not accepted ends the run
\* with a validation error.
C19_QueryFirstAndAllEightPresent ==
  HeaderChecked =>
    /\ HeaderAccepted <=>
         /\ Len(csv[1]) >= 8
         /\ ColumnName(csv[1][1]) = "query"
         /\ \A k \in DOMAIN RequiredColumns :
              \E i \in DOMAIN csv[1] : ColumnName(csv[1][i]) = RequiredColumns[k]
    /\ ~HeaderAccepted => pc = "exit" /\ importErr # "" /\ NoStatistic

C19_Witness ==
  /\ HeaderChecked
  /\ Len(csv[1]) = 9
  /\ csv[1][9] = "comment"
  /\ importErr = ""
  /\ Len(ratings) = 1
  /\ ratings[1].Rater = "A"
  /\ pc = "rated"

\* C20 as stated: whenever a data line has an empty query, mode, rater or
\* rating cell, a rating that is no integer or a rating out of range, the
\* import fails without rows and the run ends before any statistic.
C20_AnyBadLineFailsImport ==
  (HeaderChecked /\ HeaderAccepted) =>
    /\ (\E i \in 2..Len(csv) : BadLine(csv[i])) => (importErr # "" /\ pc = "exit" /\ NoStatistic)
    /\ \A i \in DOMAIN ratings :
         /\ ratings[i].Relevance \in 1..5
         /\ ratings[i].Complete \in 1..5
         /\ ratings[i].Useful \in 1..5
         /\ ratings[i].Accuracy \in {0, 1}
         /\ ratings[i].JSONValid \in {0, 1}

\* C20: a data line whose cells are all blank is passed over; the import
\* fails exactly when some other data line has an empty query, mode, rater
\* or rating cell, a rating that is no integer or a rating out of range.
\* When it fails it returns no rows at all and the run ends before any
\* statistic; when it succeeds it returns one row per data line that is not
\* blank, in order, each within the ranges.
C20_ImportAllOrNothing ==
  /\ (pc # "start" /\ importErr # "") => (pc = "exit" /\ NoStatistic)
  /\ (HeaderChecked /\ HeaderAccepted) =>
       LET data == SelectSeq(Tail(csv), LAMBDA line : ~AllBlank(line))
       IN  /\ (\E i \in DOMAIN data : BadLine(data[i])) <=> importErr # ""
           /\ importErr = "" =>
                /\ Len(ratings) = Len(data)
                /\ \A i \in DOMAIN ratings :
                     /\ ratings[i].Query = CellOf(data[i], "query")
                     /\ ratings[i].Mode = CellOf(data[i], "mode")
                     /\ ratings[i].Rater = CellOf(data[i], "rater")
                     /\ ratings[i].Relevance = IntegerOf(CellOf(data[i], "relevance"))
                     /\ ratings[i].Accuracy = IntegerOf(CellOf(data[i], "accuracy"))
                     /\ ratings[i].Complete = IntegerOf(CellOf(data[i], "completeness"))
                     /\ ratings[i].Useful = IntegerOf(CellOf(data[i], "usefulness"))
                     /\ ratings[i].JSONValid = IntegerOf(CellOf(data[i], "json_valid"))
                     /\ ratings[i].Relevance \in 1..5
                     /\ ratings[i].Complete \in 1..5
                     /\ ratings[i].Useful \in 1..5
                     /\ ratings[i].Accuracy \in {0, 1}
                     /\ ratings[i].JSONValid \in {0, 1}

C20_Witness ==
  /\ HeaderChecked
  /\ HeaderAccepted
  /\ Len(csv) = 3
  /\ ~BadLine(csv[2])
  /\ ~AllBlank(csv[2])
  /\ CellOf(csv[3], "usefulness") = "6"
  /\ importErr = "likert out of range in row q1"
  /\ pc = "exit"
  /\ NoStatistic


(***************************************************************************)
(* package middleware: DuplicateGuard                                      *)
(* Instants and durations are in milliseconds.  time.Now() is read before  *)
(* dupMu is taken, so a call is two steps: it reads the clock, and later,  *)
(* holding the lock, it decides with the instant it read.                  *)
(***************************************************************************)
\* the goroutines that call into the package
Callers == {"g1", "g2"}

Uids == {"7", "8"}

Messages == {"halo", " halo ", "halo!"}

\* SetDuplicateTTL(50 * time.Millisecond) of the test, and the default
DupTTLs == {50, DefaultDupTTL}

\* the pauses between calls, in fifths of the duplicate window
PauseFifths == {3, 5}

MaxFifths == 6

NoCalls == [g \in Callers |-> None]

\* ok && entry.text == strings.TrimSpace(text), whatever the age
duplicate_sameTextEver(m, k, text, t, ttl) ==
  /\ k \in DOMAIN m
  /\ m[k].text = TrimSpace(text)

\* ok && entry.text == strings.TrimSpace(text) && now.Sub(entry.ts) < dupTTL
duplicate(m, k, text, t, ttl) ==
  /\ k \in DOMAIN m
  /\ m[k].text = TrimSpace(text)
  /\ t - m[k].ts < ttl

GuardInit ==
  /\ ScorerIdle
  /\ StatIdle
  /\ clock = 0
  /\ dupTTL \in DupTTLs
  /\ lastMsg = << >>
  /\ calls = NoCalls
  /\ verdict = None
  /\ CacheIdle
  /\ RateIdle

\* time passes between two steps
GuardPause ==
  /\ \E f \in PauseFifths :
       /\ clock + (f * dupTTL) \div 5 <= (MaxFifths * dupTTL) \div 5
       /\ clock' = clock + (f * dupTTL) \div 5
  /\ UNCHANGED guardVars
  /\ UNCHANGED <<scoreVars, statVars, cacheVars, rateVars>>

\* now := time.Now(); k := uid
DuplicateGuardEnter ==
  /\ \E g \in Callers, uid \in Uids, text \in Messages :
       /\ calls[g] = None
       /\ calls' = [calls EXCEPT ![g] = [uid |-> uid, text |-> text, now |-> clock]]
  /\ UNCHANGED <<clock, dupTTL, lastMsg, verdict>>
  /\ UNCHANGED <<scoreVars, statVars, cacheVars, rateVars>>

\* dupMu.Lock() ... dupMu.Unlock(); return
DuplicateGuard ==
  /\ \E g \in Callers :
       /\ calls[g] # None
       /\ LET c == calls[g]
              dup == duplicate(lastMsg, c.uid, c.text, c.now, dupTTL)
          IN /\ lastMsg' = IF dup THEN lastMsg
                           ELSE put(lastMsg, c.uid, [text |-> TrimSpace(c.text), ts |-> c.now])
             /\ verdict' = [uid |-> c.uid, text |-> c.text, now |-> c.now, ok |-> ~dup]
       /\ calls' = [calls EXCEPT ![g] = None]
  /\ UNCHANGED <<clock, dupTTL>>
  /\ UNCHANGED <<scoreVars, statVars, cacheVars, rateVars>>

GuardNext == GuardPause \/ DuplicateGuardEnter \/ DuplicateGuard

GuardSpec == GuardInit /\ [][GuardNext]_vars

(***************************************************************************)
(* C26                                                                     *)
(***************************************************************************)
\* the text of a message without its leading and trailing white space
Trimmed(text) == IF text = " halo " THEN "halo" ELSE text

\* a call of the caller g returns in this step
Returns(g) == calls[g] # None /\ calls'[g] = None

\* the recorded message of the user is the same text and younger than the window
Replayed(c) ==
  /\ c.uid \in DOMAIN lastMsg
  /\ lastMsg[c.uid].text = Trimmed(c.text)
  /\ c.now - lastMsg[c.uid].ts < dupTTL

\* C26: a DuplicateGuard call returns false exactly when the last message
\* recorded for its uid has the same whitespace-trimmed text and was recorded
\* less than dupTTL before the instant the call read; a rejected call leaves
\* every record as it was; any other call returns true and records (trimmed
\* text, now) for its uid; the records of the other uids never change.
C26_DuplicateGuardDecides ==
  [][\A g \in Callers :
       Returns(g) =>
         LET c == calls[g]
         IN /\ verdict'.ok = ~Replayed(c)
            /\ Replayed(c) => lastMsg' = lastMsg
            /\ ~Replayed(c) =>
                 /\ c.uid \in DOMAIN lastMsg'
                 /\ lastMsg'[c.uid] = [text |-> Trimmed(c.text), ts |-> c.now]
            /\ \A u \in Uids \ {c.uid} :
                 /\ u \in DOMAIN lastMsg' <=> u \in DOMAIN lastMsg
                 /\ u \in DOMAIN lastMsg => lastMsg'[u] = lastMsg[u]]_vars

\* a padded replay was rejected within the window, and the record kept its
\* first instant
C26_Witness ==
  /\ verdict # None
  /\ ~verdict.ok
  /\ verdict.text = " halo "
  /\ lastMsg[verdict.uid].ts < verdict.now
  /\ DOMAIN lastMsg = Uids


(***************************************************************************)
(* package middleware: RateLimit                                           *)
(* Instants and durations are in milliseconds.  The handler reads          *)
(* time.Now() before it takes rlMu, so a request is two steps.             *)
(***************************************************************************)
\* SetRateLimitConfig(win, cap, conc) at startup: the defaults, and a small bucket
RateConfigs ==
  {[window |-> DefaultWindow, capacity |-> DefaultCapacity],
   [window |-> 3000, capacity |-> 2]}

\* userKey(c): uid + "@" + clientIP(c)
Keys == {"7@10.0.0.1", "8@10.0.0.1"}

\* the pauses between requests
RatePauses == {1000, 2000}

MaxRateSeconds == 3

NoRequests == [g \in Callers |-> None]

\* int(float64(refillPerWd) * (float64(elapsed) / float64(window))): the
\* integer part of the product, which the floating-point product yields for
\* the whole seconds drawn here
refill(per, elapsed, win) == (per * elapsed) \div win

\* b.tokens += add with no upper limit
clamp_none(tokens, cap) == tokens

\* if b.tokens > capacity { b.tokens = capacity }
clamp(tokens, cap) == IF tokens > cap THEN cap ELSE tokens

RateInit ==
  /\ ScorerIdle
  /\ StatIdle
  /\ clock = 0
  /\ GuardIdle
  /\ CacheIdle
  /\ \E cfg \in RateConfigs :
       /\ window = cfg.window
       /\ capacity = cfg.capacity
       /\ refillPerWd = cfg.capacity
  /\ buckets = << >>
  /\ requests = NoRequests
  /\ served = None
  /\ admitted = << >>

\* time passes between two steps
RatePause ==
  /\ \E d \in RatePauses :
       /\ clock + d <= MaxRateSeconds * 1000
       /\ clock' = clock + d
  /\ UNCHANGED rateVars
  /\ UNCHANGED <<scoreVars, statVars, guardVars, cacheVars>>

\* key := userKey(c); now := time.Now()
RateLimitEnter ==
  /\ \E g \in Callers, key \in Keys :
       /\ requests[g] = None
       /\ requests' = [requests EXCEPT ![g] = [key |-> key, now |-> clock]]
  /\ UNCHANGED <<clock, window, capacity, refillPerWd, buckets, served, admitted>>
  /\ UNCHANGED <<scoreVars, statVars, guardVars, cacheVars>>

\* rlMu.Lock() ... rlMu.Unlock(), then 429 or c.Next()
RateLimit ==
  /\ \E g \in Callers :
       /\ requests[g] # None
       /\ LET r == requests[g]
              fresh == r.key \notin DOMAIN buckets
              b == IF fresh THEN [tokens |-> capacity, lastRefill |-> r.now]
                   ELSE buckets[r.key]
              elapsed == r.now - b.lastRefill
              add == IF elapsed > 0 THEN refill(refillPerWd, elapsed, window) ELSE 0
              filled == IF add > 0
                        THEN [tokens |-> clamp(b.tokens + add, capacity), lastRefill |-> r.now]
                        ELSE b
              since == IF fresh \/ add > 0 THEN 0 ELSE admitted[r.key]
          IN IF filled.tokens <= 0
             THEN /\ buckets' = put(buckets, r.key, filled)
                  /\ served' = [key |-> r.key, status |-> "429", retryAfter |-> window \div 1000]
                  /\ admitted' = put(admitted, r.key, since)
             ELSE /\ buckets' = put(buckets, r.key, [filled EXCEPT !.tokens = @ - 1])
                  /\ served' = [key |-> r.key, status |-> "next", retryAfter |-> 0]
                  /\ admitted' = put(admitted, r.key, since + 1)
       /\ requests' = [requests EXCEPT ![g] = None]
  /\ UNCHANGED <<clock, window, capacity, refillPerWd>>
  /\ UNCHANGED <<scoreVars, statVars, guardVars, cacheVars>>

RateNext == RatePause \/ RateLimitEnter \/ RateLimit

RateSpec == RateInit /\ [][RateNext]_vars

(***************************************************************************)
(* C30                                                                     *)
(***************************************************************************)
\* a request of the caller g is answered in this step
Answered(g) == requests[g] # None /\ requests'[g] = None

\* the tokens the bucket of the request holds after the proportional refill
TokensAfterRefill(r) ==
  IF r.key \notin DOMAIN buckets THEN capacity
  ELSE LET had == buckets[r.key].tokens
           waited == r.now - buckets[r.key].lastRefill
           gained == IF waited > 0 THEN (capacity * waited) \div window ELSE 0
       IN IF had + gained > capacity THEN capacity ELSE had + gained

\* C30: every bucket holds between 0 and capacity tokens, and at most
\* capacity requests of a key were admitted since its bucket was last
\* refilled; a request is answered 429 exactly when its bucket holds no token
\* after the proportional refill, an admitted request takes exactly one token,
\* a rejected one takes none, and the buckets of the other keys do not change.
C30_TokenBucket ==
  /\ [](\A k \in DOMAIN buckets :
          /\ buckets[k].tokens \in 0..capacity
          /\ admitted[k] <= capacity)
  /\ [][\A g \in Callers :
          Answered(g) =>
            LET r == requests[g]
                left == TokensAfterRefill(r)
            IN /\ served'.key = r.key
               /\ served'.status = "429" <=> left = 0
               /\ served'.status = "next" <=> left > 0
               /\ buckets'[r.key].tokens = IF left = 0 THEN 0 ELSE left - 1
               /\ \A k \in Keys \ {r.key} :
                    /\ k \in DOMAIN buckets' <=> k \in DOMAIN buckets
                    /\ k \in DOMAIN buckets => buckets'[k] = buckets[k]]_vars

\* with the default configuration a sixth request of a key was rejected after
\* five were admitted, while the other key still has tokens
C30_Witness ==
  /\ served # None
  /\ served.status = "429"
  /\ capacity = DefaultCapacity
  /\ admitted[served.key] = capacity
  /\ \E k \in DOMAIN buckets : buckets[k].tokens > 0


(***************************************************************************)
(* package cache                                                           *)
(* Instants and durations are in milliseconds; the clock counts from       *)
(* 2025-10-01T00:00:00Z, and Unix() is in whole seconds.  A value of type  *)
(* any carries its dynamic type.                                           *)
(***************************************************************************)
\* the Unix time of 2025-10-01T00:00:00Z
UnixBase == 1759276800

DefaultMessage == "Maaf, belum ada jawaban."

Str(s) == [type |-> "string", s |-> s]

Number(n) == [type |-> "int", n |-> n]

\* CachedResponse{Text: text, Status: status, CachedAt: at}
CachedResponse(text, status, at) ==
  [type |-> "CachedResponse", Text |-> text, Status |-> status, CachedAt |-> at]

\* t.Unix()
Unix(t) == UnixBase + t \div 1000

CacheKeys == {"test-key"}

Texts == {"Halo", "", DefaultMessage}

Statuses == {"completed", "canceled", "error", "pending"}

\* 50 * time.Millisecond and time.Second of the tests, and no expiry
TTLs == {50, 1000, 0}

\* what callers of Set store: plain strings of the old format, a number, and
\* a response that was not completed
PlainValues ==
  {Str("Jawaban lama"), Str(""), Str(DefaultMessage), Number(42),
   CachedResponse("Sebagian", "canceled", 0)}

\* the test starts 200 ms into a second
CacheStart == 200

\* time.Sleep(80 * time.Millisecond) of the test, and a second
CachePauses == {80, 1000}

MaxCacheClock == 1300

\* it.Exp != 0 && it.Exp < now
expired(it, nowSec) == it.Exp # 0 /\ it.Exp < nowSec

\* (c *Cache) Get: the value, whether it was found, and the items afterwards
cacheGet(its, key, t) ==
  IF key \notin DOMAIN its THEN [v |-> Str(""), ok |-> FALSE, items |-> its]
  ELSE IF expired(its[key], Unix(t))
       THEN [v |-> Str(""), ok |-> FALSE, items |-> remove(its, key)]
       ELSE [v |-> its[key].V, ok |-> TRUE, items |-> its]

\* (c *Cache) Set
cacheSet(its, key, v, ttl, t) ==
  put(its, key, [V |-> v, Exp |-> IF ttl > 0 THEN Unix(t + ttl) ELSE 0])

\* status == StatusCompleted && text != "" && text != "Maaf, belum ada jawaban."
cacheable(text, status) ==
  status = "completed" /\ text # "" /\ text # DefaultMessage

\* every cached value is served as text
servable_anything(v) == TRUE

\* the type switch of GetChatResponseWithInfo: the cases that return found
servable(v) ==
  \/ v.type = "string" /\ v.s # "" /\ v.s # DefaultMessage
  \/ /\ v.type = "CachedResponse"
     /\ v.Status = "completed" /\ v.Text # "" /\ v.Text # DefaultMessage

\* the text of a served value
textOf(v) ==
  IF v.type = "string" THEN v.s
  ELSE IF v.type = "CachedResponse" THEN v.Text ELSE ""

CacheInit ==
  /\ ScorerIdle
  /\ StatIdle
  /\ clock = CacheStart
  /\ GuardIdle
  /\ RateIdle
  /\ cacheItems = << >>
  /\ stored = << >>
  /\ reply = None

\* time passes between two calls
CachePause ==
  /\ \E d \in CachePauses :
       /\ clock + d <= MaxCacheClock
       /\ clock' = clock + d
  /\ UNCHANGED cacheVars
  /\ UNCHANGED <<scoreVars, statVars, guardVars, rateVars>>

\* c.Set(key, v, ttl)
Set ==
  /\ \E key \in CacheKeys, v \in PlainValues, ttl \in TTLs :
       /\ cacheItems' = cacheSet(cacheItems, key, v, ttl, clock)
       /\ stored' = put(stored, key, [v |-> v, at |-> clock, ttl |-> ttl])
  /\ reply' = None
  /\ UNCHANGED clock
  /\ UNCHANGED <<scoreVars, statVars, guardVars, rateVars>>

\* c.Get(key)
Get ==
  /\ \E key \in CacheKeys :
       LET got == cacheGet(cacheItems, key, clock)
       IN /\ cacheItems' = got.items
          /\ reply' = [op |-> "Get", key |-> key, v |-> got.v, ok |-> got.ok, at |-> clock]
  /\ UNCHANGED <<clock, stored>>
  /\ UNCHANGED <<scoreVars, statVars, guardVars, rateVars>>

\* c.Delete(key)
Delete ==
  /\ \E key \in CacheKeys :
       /\ cacheItems' = remove(cacheItems, key)
       /\ stored' = remove(stored, key)
  /\ reply' = None
  /\ UNCHANGED clock
  /\ UNCHANGED <<scoreVars, statVars, guardVars, rateVars>>

\* the janitor's tick: every expired item is deleted
Janitor ==
  /\ \E k \in DOMAIN cacheItems : expired(cacheItems[k], Unix(clock))
  /\ cacheItems' = [k \in {x \in DOMAIN cacheItems : ~expired(cacheItems[x], Unix(clock))}
                      |-> cacheItems[k]]
  /\ UNCHANGED <<clock, stored, reply>>
  /\ UNCHANGED <<scoreVars, statVars, guardVars, rateVars>>

\* c.SetChatResponse(key, text, status, ttl)
SetChatResponse ==
  /\ \E key \in CacheKeys, text \in Texts, status \in Statuses, ttl \in TTLs :
       IF cacheable(text, status)
       THEN LET response == CachedResponse(text, status, clock)
            IN /\ cacheItems' = cacheSet(cacheItems, key, response, ttl, clock)
               /\ stored' = put(stored, key, [v |-> response, at |-> clock, ttl |-> ttl])
       ELSE UNCHANGED <<cacheItems, stored>>
  /\ reply' = None
  /\ UNCHANGED clock
  /\ UNCHANGED <<scoreVars, statVars, guardVars, rateVars>>

\* c.GetChatResponse(key)
GetChatResponse ==
  /\ \E key \in CacheKeys :
       LET got == cacheGet(cacheItems, key, clock)
           found == got.ok /\ servable(got.v)
       IN /\ cacheItems' = got.items
          /\ reply' = [op |-> "GetChatResponse", key |-> key,
                       v |-> Str(IF found THEN textOf(got.v) ELSE ""),
                       ok |-> found, at |-> clock]
  /\ UNCHANGED <<clock, stored>>
  /\ UNCHANGED <<scoreVars, statVars, guardVars, rateVars>>

\* c.InvalidateChatResponse(key): Get, then Delete
InvalidateChatResponse ==
  /\ \E key \in CacheKeys :
       /\ cacheItems' = remove(cacheGet(cacheItems, key, clock).items, key)
       /\ stored' = remove(stored, key)
  /\ reply' = None
  /\ UNCHANGED clock
  /\ UNCHANGED <<scoreVars, statVars, guardVars, rateVars>>

CacheNext ==
  \/ CachePause
  \/ Set
  \/ Get
  \/ Delete
  \/ Janitor
  \/ SetChatResponse
  \/ GetChatResponse
  \/ InvalidateChatResponse

CacheSpec == CacheInit /\ [][CacheNext]_vars


(***************************************************************************)
(* C27                                                                     *)
(***************************************************************************)
\* the latest call was a GetChatResponse
ChatAsked == reply # None /\ reply.op = "GetChatResponse"

\* C27: GetChatResponse(key) finds a text only if the value last stored for
\* the key, and not deleted or invalidated since, is that text as a plain
\* string or as a response with status completed, and the text is neither
\* empty nor the default message; a key with nothing stored since its last
\* invalidation misses.
C27_OnlyCompletedResponsesServed ==
  ChatAsked =>
    /\ reply.ok =>
         /\ reply.key \in DOMAIN stored
         /\ reply.v.s \notin {"", DefaultMessage}
         /\ LET v == stored[reply.key].v
            IN \/ v.type = "string" /\ v.s = reply.v.s
               \/ v.type = "CachedResponse" /\ v.Status = "completed" /\ v.Text = reply.v.s
    /\ reply.key \notin DOMAIN stored => ~reply.ok

\* a completed response was found some time after it was cached
C27_Witness ==
  /\ ChatAsked
  /\ reply.ok
  /\ stored[reply.key].v.type = "CachedResponse"
  /\ stored[reply.key].at < reply.at

(***************************************************************************)
(* C28                                                                     *)
(***************************************************************************)
\* the latest call was a Get
Asked == reply # None /\ reply.op = "Get"

\* C28: Get returns an entry stored with ttl > 0 exactly while no more than
\* ttl has elapsed since its Set, and misses a key that was deleted.
C28_ReturnedOnlyWhileFresh ==
  Asked =>
    IF reply.key \in DOMAIN stored
    THEN LET s == stored[reply.key]
         IN s.ttl > 0 => (reply.ok <=> reply.at - s.at <= s.ttl)
    ELSE ~reply.ok


(***************************************************************************)
(* C29                                                                     *)
(***************************************************************************)
\* the query names the week to come
NextWeekAsked == InQuery("minggu depan") \/ InQuery("pekan depan")

\* the calendar days (since 2025-10-01) of the week Monday 6 October to
\* Sunday 12 October 2025, the week after Saturday 4 October
WeekAfterPromptDate == 5..11

\* the entry is dated in that week
InWeekAfterPromptDate(c) ==
  /\ ParseDate(c.Date).ok
  /\ ParseDate(c.Date).t \div 24 \in WeekAfterPromptDate

\* the entry is of the kind the query names, if it names one
OfKindAsked(c) ==
  /\ InQuery("webinar") => c.Type = "webinar"
  /\ InQuery("sertifikasi") => c.Type = "certification"

\* C29: for a next-week query the relevant titles are those of the catalog
\* entries of the kind asked for that are dated from Monday 6 October to
\* Sunday 12 October 2025, whenever (and in whatever time zone) the record
\* is scored.
C29_NextWeekSetIsFixedWeek ==
  (Scored /\ NextWeekAsked) =>
    QueryTitles = {c.Title : c \in {e \in CatalogEvents :
                                      InWeekAfterPromptDate(e) /\ OfKindAsked(e)}}

(***************************************************************************)
(* Properties of whole rating runs                                         *)
(***************************************************************************)
\* validation has passed and the aggregation has been reached
Aggregated == pc \in {"grouped", "measured", "paired", "tested", "reported"}

\* the validation of the rating rows has run
Validated == pc \notin {"start", "rated"} /\ importErr = "" /\ Len(ratings) > 0

RatersOf(rs) == {rs[i].Rater : i \in DOMAIN rs}

\* C21: the aggregation is reached only when the rating rows hold exactly
\* two distinct rater names and the two configured names differ.
C21_AggregatesOnlyTwoDistinctRaters ==
  Aggregated =>
    /\ Cardinality(RatersOf(ratings)) = 2
    /\ raterNames[1] # raterNames[2]

\* the raters among the two names that have no row of an item
LackingRaters(k) == {raterNames[n] : n \in {m \in 1..2 : ratedBy(ratings, k, raterNames[m]) = {}}}

IncompleteItems == {k \in itemKeys(ratings) : LackingRaters(k) # {}}

NoReport == \A f \in Reports : f \notin DOMAIN files

\* C22: once the rows have been validated, an item that lacks a row of one
\* of the two raters has ended the run with an error that names a rater the
\* item lacks and the query and mode of that item, and no vectors, no
\* reliability value, no paired test and no report file exist; when no item
\* lacks a rater the run has not ended and there is no error.
C22_MissingRaterAborts ==
  Validated =>
    IF IncompleteItems # {}
    THEN /\ pc = "exit"
         /\ errOut # None
         /\ \E k \in IncompleteItems :
              /\ errOut.query = k[1]
              /\ errOut.mode = k[2]
              /\ errOut.rater \in LackingRaters(k)
         /\ vectors = None
         /\ irr = None
         /\ paired = None
         /\ tests = None
         /\ NoReport
    ELSE /\ pc # "exit"
         /\ errOut = None

C22_Witness ==
  /\ pc = "exit"
  /\ errOut # None
  /\ errOut.rater = "B"
  /\ errOut.query = "q1"
  /\ errOut.mode = "engineered"
  /\ ratedBy(ratings, <<"q1", "engineered">>, "A") # {}
  /\ ratedBy(ratings, <<"q1", "baseline">>, "B") # {}
  /\ "ratings-import" \in DOMAIN files
  /\ NoReport

\* the items of the two modes that are aggregated
AggregatedItems == {k \in itemKeys(ratings) : k[2] \in {"baseline", "engineered"}}

\* the number of paired queries that fail in one mode and not in the other
Discordant(queries, f(_), failing, passing) ==
  Cardinality({i \in DOMAIN queries :
                 /\ 1 - Consensus(queries[i], failing, f) = 1
                 /\ 1 - Consensus(queries[i], passing, f) = 0})

\* C23: after validation, for every item of the baseline or the engineered
\* mode, twice the aggregated value of each Likert metric is the sum of the
\* two raters' values, and the aggregated binary label is 1 when a rater
\* marked 1 and 0 when both marked 0; the McNemar tests count the queries
\* whose complemented consensus is 1 in one mode and 0 in the other.
C23_MeanAndLiberalOr ==
  /\ Aggregated =>
       \A k \in AggregatedItems :
         LET q == k[1]
             m == k[2]
             of(base, eng) == IF m = "baseline" THEN base ELSE eng
             mean(base, eng, f(_)) ==
               /\ q \in DOMAIN of(base, eng)
               /\ 2 * of(base, eng)[q][1] = TwiceMean(q, m, f) * of(base, eng)[q][2]
             label(base, eng, f(_)) == lookup(of(base, eng), q, 0) = Consensus(q, m, f)
             rel(r) == r.Relevance
             com(r) == r.Complete
             use(r) == r.Useful
             acc(r) == r.Accuracy
             js(r) == r.JSONValid
         IN  /\ mean(vectors.avgRelBase, vectors.avgRelEng, rel)
             /\ mean(vectors.avgComBase, vectors.avgComEng, com)
             /\ mean(vectors.avgUseBase, vectors.avgUseEng, use)
             /\ label(vectors.accBase, vectors.accEng, acc)
             /\ label(vectors.jsBase, vectors.jsEng, js)
  /\ (pc \in {"tested", "reported"} /\ tests.kind = "ratings") =>
       LET acc(r) == r.Accuracy
           js(r) == r.JSONValid
       IN  /\ tests.accuracy.b = Discordant(paired.queries, acc, "baseline", "engineered")
           /\ tests.accuracy.c = Discordant(paired.queries, acc, "engineered", "baseline")
           /\ tests.json_valid.b = Discordant(paired.queries, js, "baseline", "engineered")
           /\ tests.json_valid.c = Discordant(paired.queries, js, "engineered", "baseline")

C23_Witness ==
  /\ pc = "reported"
  /\ tests.kind = "ratings"
  /\ paired.queries = <<"q1">>
  /\ vectors.avgRelBase["q1"] = <<7, 2>>
  /\ vectors.avgRelEng["q1"] = <<5, 1>>
  /\ LastRating("q1", "baseline", 1).Accuracy = 0
  /\ LastRating("q1", "baseline", 2).Accuracy = 1
  /\ vectors.accBase["q1"] = 1
  /\ "q1" \notin DOMAIN vectors.jsEng
  /\ tests.json_valid.b = 0
  /\ tests.json_valid.c = 1

\* the statistics functions applied to the aggregated ratings
ComputedIRR ==
  [kind |-> "irr",
   alpha_relevance |-> krippendorffAlphaOrdinal(vectors.relItems, LikertScale),
   alpha_completeness |-> krippendorffAlphaOrdinal(vectors.comItems, LikertScale),
   alpha_usefulness |-> krippendorffAlphaOrdinal(vectors.useItems, LikertScale),
   kappa_accuracy |-> cohensKappaBinary(vectors.accA, vectors.accB),
   kappa_json |-> cohensKappaBinary(vectors.jsA, vectors.jsB)]

ComputedTests ==
  [kind |-> "ratings",
   relevance |-> wilcoxonSignedRank(paired.baseRel, paired.engRel),
   completeness |-> wilcoxonSignedRank(paired.baseCom, paired.engCom),
   usefulness |-> wilcoxonSignedRank(paired.baseUse, paired.engUse),
   accuracy |-> mcnemarTestInt(failVec(paired.accBv), failVec(paired.accEv)),
   json_valid |-> mcnemarTestInt(failVec(paired.jsBv), failVec(paired.jsEv))]

\* C25: the reliability values and the test results written to the report
\* files are the values the statistics functions return on the aggregated
\* ratings, whatever the environment of the run.
C25_ExportedAreComputed ==
  pc = "reported" =>
    /\ files["abjudge-irr"] = ComputedIRR
    /\ files["abjudge-tests"] = ComputedTests

(***************************************************************************)
(* Properties of generating runs started one after another                 *)
(***************************************************************************)
\* C24: two generating runs with the same non-empty ABJUDGE_SEED and the
\* same items have generated the same rating rows.
C24_SameSeedSameRows ==
  \A r1, r2 \in runs :
    (r1.given # "" /\ r1.given = r2.given /\ r1.items = r2.items) => r1.rows = r2.rows

====
